---- MODULE Spec2Model ----
(***************************************************************************)
(* Task-Manager backend: the Express middleware chain of the task routes   *)
(* (verifyJWT, authorizeRoles, verifyCompanyAccess, verifyDepartmentAccess,*)
(* canManageUsers) and the task controllers, over a small document store.  *)
(***************************************************************************)
EXTENDS Integers, Sequences, FiniteSets, TLC

\* A field that is absent from a request or document (JavaScript undefined).
NONE == "none"
\* A well-formed ObjectId for which the store holds no document.
UnknownId == "id0"
\* A string that is not a valid ObjectId (findById raises a CastError).
BadId == "bad"

CompanyIds == {"c1", "c2"}
DepartmentIds == {"d1", "d2", "d3"}
UserIds == {"sa", "m1", "m2", "m3", "u1", "u2", "x1"}

VARIABLES
    users,          \* User collection: id -> document
    companies,      \* Company collection: id -> document
    departments,    \* Department collection: id -> document
    tasks,          \* Task collection: sequence of committed task documents
    notifications,  \* Notification collection: sequence of committed documents
    pushes,         \* realtime events handed to emitToUser / emitToManagers
    req,            \* the request being served (Express req + router position)
    res,            \* the response written by a handler with res.status().json()
    err,            \* the error handed to next(error), NoErr when none
    session,        \* the mongoose session of the request and what was written in it
    activities,     \* TaskActivity collection: sequence of saved documents
    routineTask,    \* a RoutineTask document and the progress stored for it
    registered,     \* the companies, departments and users written by registerUser
    registrations,  \* the registerUser requests in flight, by client
    refresh,        \* GET /api/auth/refresh-token: the refresh_token cookie and the cookies cleared
    projectTaskModel \* the listing of models/ProjectTaskModel.js that is loaded

vars == <<users, companies, departments, tasks, notifications, pushes, req, res, err,
         session, activities, routineTask, registered, registrations, refresh,
         projectTaskModel>>

\* The collections and requests the task routes do not touch, and the model
\* files loaded.
others == <<activities, routineTask, registered, registrations, refresh, projectTaskModel>>

(***************************************************************************)
(* The document store the middleware reads.                                *)
(***************************************************************************)
User(role, company, department, isVerified, isActive) ==
    [role |-> role, company |-> company, department |-> department,
     isVerified |-> isVerified, isActive |-> isActive]

Company(isActive, status) ==
    [isActive |-> isActive, subscription |-> [status |-> status]]

Department(company, managers, isActive) ==
    [company |-> company, managers |-> managers, isActive |-> isActive]

SubscriptionStatuses == {"active", "inactive", "suspended"}

\* Reference data: company c1 with departments d1 and d2, company c2 with d3.
\* m1 belongs to d1 and is also listed as a manager of d2; m3 is deactivated.
BaseUsers ==
    [u \in UserIds |->
        CASE u = "sa" -> User("SuperAdmin", "c1", "d1", TRUE, TRUE)
          [] u = "m1" -> User("Manager", "c1", "d1", TRUE, TRUE)
          [] u = "m2" -> User("Manager", "c1", "d2", TRUE, TRUE)
          [] u = "m3" -> User("Manager", "c1", "d1", TRUE, FALSE)
          [] u = "u1" -> User("User", "c1", "d1", TRUE, TRUE)
          [] u = "u2" -> User("User", "c1", "d2", TRUE, TRUE)
          [] u = "x1" -> User("Manager", "c2", "d3", TRUE, TRUE)]

BaseCompanies == [c \in CompanyIds |-> Company(TRUE, "active")]

BaseDepartments ==
    [d \in DepartmentIds |->
        CASE d = "d1" -> Department("c1", {"sa", "m1", "m3"}, TRUE)
          [] d = "d2" -> Department("c1", {"m2", "m1"}, TRUE)
          [] d = "d3" -> Department("c2", {"x1"}, TRUE)]

(***************************************************************************)
(* Requests and responses.                                                 *)
(***************************************************************************)
\* jwt.verify outcomes: the name of the error it throws, or "ok"; "absent"
\* when the access_token cookie is not set.
JwtErrors == {"TokenExpiredError", "JsonWebTokenError", "NotBeforeError"}

Token(verify, userId) == [verify |-> verify, userId |-> userId]

Tokens ==
    {Token("absent", NONE)}
    \cup {Token(e, NONE) : e \in JwtErrors}
    \cup {Token("ok", u) : u \in UserIds \cup {UnknownId}}

EmptyBody == [k \in {} |-> NONE]

Envelope(message, error) ==
    [success |-> FALSE, message |-> message, error |-> error]

NoRes == [sent |-> 0, by |-> NONE, status |-> 0, body |-> EmptyBody]
NoErr == [status |-> 0, code |-> NONE]

\* The session a controller obtains from mongoose.startSession(): the state of
\* its transaction, the task documents saved in it and the notification
\* documents inserted in it.
Session(state, saved, inserted) ==
    [state |-> state, tasks |-> saved, notifications |-> inserted, calls |-> << >>]

\* No session has been started for the request.
NoSession == Session("none", << >>, << >>)

\* RoutineTaskModel.js: the performedTasks list, one isCompleted flag per
\* item, and the stored progress.
RoutineTask(performedTasks, progress) ==
    [performedTasks |-> performedTasks, progress |-> progress]

\* Lines 36-41: progress defaults to 0, the list to [].
NoRoutineTask == RoutineTask(<< >>, 0)

\* The documents registerUser writes, by collection.
Accounts(companyDocs, departmentDocs, userDocs) ==
    [companies |-> companyDocs, departments |-> departmentDocs, users |-> userDocs]

NoAccounts == Accounts(<< >>, << >>, << >>)

\* The clients that may have a POST /api/auth/register in flight.
Registrants == {"r1", "r2"}

\* req.body of POST /api/auth/register: companyData {name, email, phone} and
\* userData {departmentName, adminEmail, role}; the address, the admin's
\* names and the password are well-formed in every request of the model, and
\* the e-mail addresses are given by their local part.
RegisterBody(name, email, phone, adminEmail, role) ==
    [companyData |-> TRUE, name |-> name, email |-> email, phone |-> phone,
     departmentName |-> <<"h", "r">>, adminEmail |-> adminEmail, role |-> role]

\* A body without companyData and userData.
NoRegisterBody ==
    [RegisterBody(<< >>, << >>, << >>, << >>, NONE) EXCEPT !.companyData = FALSE]

\* A registerUser request: where it stands ("idle": none in flight,
\* "checked": the uniqueness lookups of lines 843-888 found nothing, "done":
\* answered), its body, the error handed to next, the status of the response
\* and its session.
Registration(pc, body, error, status, s) ==
    [pc |-> pc, body |-> body, err |-> error, status |-> status, session |-> s]

NoRegistration == Registration("idle", NoRegisterBody, NoErr, 0, NoSession)

\* The two listings of controllers/authController.js in the source: the one
\* that follows the task controller and the one of part_001.
Listings == {"TaskController.js", "part_001"}

\* GET /api/auth/refresh-token: the listing that serves it, the
\* refresh_token cookie of the request, whether User.findById rejects, and
\* the names of the cookies cleared with res.clearCookie.
Refresh(listing, token, storeFault, cleared) ==
    [listing |-> listing, refresh_token |-> token, storeFault |-> storeFault,
     cleared |-> cleared]

NoRefresh == Refresh("TaskController.js", Token("absent", NONE), FALSE, {})

\* Nothing is logged, no routine task is edited and nobody registers.
Quiet ==
    /\ activities = << >>
    /\ routineTask = NoRoutineTask
    /\ registered = NoAccounts
    /\ registrations = [r \in Registrants |-> NoRegistration]
    /\ refresh = NoRefresh
    /\ projectTaskModel = "ProjectTaskModel.js"

\* res.status(s).json(b) in handler h: the response is written and the
\* handler returns without calling next, so the rest of the stack never runs.
Json(h, status, body) ==
    /\ res' = [sent |-> res.sent + 1, by |-> h, status |-> status, body |-> body]
    /\ req' = [req EXCEPT !.chain = << >>, !.ran = Append(@, h)]

\* next() in handler h: the router invokes the following handler of the stack,
\* with the request object as h left it.
CallNext(h, r) ==
    /\ req' = [r EXCEPT !.chain = Tail(r.chain), !.ran = Append(r.ran, h),
                        !.passed = Append(r.passed, h)]
    /\ res' = res

Running(h) == req.chain # << >> /\ Head(req.chain).name = h

\* An entry of a route's handler stack; roles is the argument of
\* authorizeRoles and empty for every other handler.
Handler(name, roles) == [name |-> name, roles |-> roles]

\* What a middleware does with a request: call next() with the request as
\* it left it, or write a response and return.
Pass(r) == [next |-> TRUE, status |-> 0, body |-> EmptyBody, req |-> r]
Deny(status, body, r) == [next |-> FALSE, status |-> status, body |-> body, req |-> r]

Apply(h, d) == IF d.next THEN CallNext(h, d.req) ELSE Json(h, d.status, d.body)

(***************************************************************************)
(* authMiddleware.js: verifyJWT                                            *)
(***************************************************************************)
\* The activation checks with the department check left out.
ActivationChecks_noDepartmentCheck(r, userId) ==
    LET user == users[userId] IN
    IF ~user.isVerified THEN
        Deny(401, Envelope("User account is not verified", "ACCOUNT_NOT_VERIFIED"), r)
    ELSE IF ~user.isActive THEN
        Deny(401, Envelope("User account is deactivated", "USER_DEACTIVATED"), r)
    ELSE IF ~companies[user.company].isActive THEN
        Deny(401, EmptyBody, r)
    ELSE IF companies[user.company].subscription.status # "active" THEN
        Deny(403, Envelope("Company subscription is not active", "SUBSCRIPTION_INACTIVE"), r)
    ELSE
        Pass([r EXCEPT !.user = userId])

\* Lines 59-106: the activation checks on the resolved user, in code order.
ActivationChecks(r, userId) ==
    LET user == users[userId] IN
    IF ~user.isVerified THEN
        Deny(401, Envelope("User account is not verified", "ACCOUNT_NOT_VERIFIED"), r)
    ELSE IF ~user.isActive THEN
        Deny(401, Envelope("User account is deactivated", "USER_DEACTIVATED"), r)
    ELSE IF ~companies[user.company].isActive THEN
        \* return res.status(401).json({}); the clearCookie call that holds the
        \* message and the code is never reached
        Deny(401, EmptyBody, r)
    ELSE IF companies[user.company].subscription.status # "active" THEN
        Deny(403, Envelope("Company subscription is not active", "SUBSCRIPTION_INACTIVE"), r)
    ELSE IF ~departments[user.department].isActive THEN
        Deny(401, Envelope("Department is deactivated", "DEPARTMENT_DEACTIVATED"), r)
    ELSE
        Pass([r EXCEPT !.user = userId])

verifyJWT(r) ==
    LET token == r.cookies.access_token IN
    IF token.verify = "absent" THEN
        Deny(401, Envelope("Access token is required", "UNAUTHORIZED"), r)
    ELSE IF token.verify = "TokenExpiredError" THEN
        Deny(401, Envelope("Access token has expired", "TOKEN_EXPIRED"), r)
    ELSE IF token.verify = "JsonWebTokenError" THEN
        Deny(401, Envelope("Invalid access token", "INVALID_TOKEN"), r)
    ELSE IF token.verify # "ok" THEN
        Deny(401, Envelope("Token verification failed", "TOKEN_VERIFICATION_FAILED"), r)
    ELSE IF r.storeFault THEN
        \* User.findById rejects: the outer catch answers 500
        Deny(500, Envelope("Internal server error during authentication",
                           "AUTHENTICATION_ERROR"), r)
    ELSE IF token.userId \notin DOMAIN users THEN
        Deny(401, Envelope("User not found", "USER_NOT_FOUND"), r)
    ELSE
        ActivationChecks(r, token.userId)

VerifyJWT ==
    /\ Running("verifyJWT")
    /\ UNCHANGED <<others, users, companies, departments, tasks, notifications, pushes, err, session>>
    /\ Apply("verifyJWT", verifyJWT(req))

(***************************************************************************)
(* authMiddleware.js: authorizeRoles(allowedRoles)                         *)
(***************************************************************************)
authorizeRoles(allowedRoles, r) ==
    IF r.user = NONE THEN
        Deny(401, Envelope("Authentication required", "AUTHENTICATION_REQUIRED"), r)
    ELSE IF users[r.user].role \notin allowedRoles THEN
        Deny(403, Envelope("Access denied. Required roles", "INSUFFICIENT_PERMISSIONS"), r)
    ELSE
        Pass(r)

AuthorizeRoles ==
    /\ Running("authorizeRoles")
    /\ UNCHANGED <<others, users, companies, departments, tasks, notifications, pushes, err, session>>
    /\ Apply("authorizeRoles", authorizeRoles(Head(req.chain).roles, req))

(***************************************************************************)
(* authMiddleware.js: verifyCompanyAccess                                  *)
(***************************************************************************)
\* The company reads with the route parameter taking precedence.
ResourceCompanyId_paramsFirst(r) ==
    IF r.params.companyId # NONE THEN r.params.companyId
    ELSE IF r.body.company # NONE THEN r.body.company
    ELSE r.query.company

\* The three reads of lines 276-288: each later source overrides the earlier.
ResourceCompanyId(r) ==
    IF r.query.company # NONE THEN r.query.company
    ELSE IF r.body.company # NONE THEN r.body.company
    ELSE r.params.companyId

verifyCompanyAccess(r) ==
    IF r.user = NONE THEN
        Deny(401, Envelope("Authentication required", "AUTHENTICATION_REQUIRED"), r)
    ELSE LET resourceCompanyId == ResourceCompanyId(r) IN
        IF resourceCompanyId = NONE THEN
            Pass([r EXCEPT !.body.company = users[r.user].company])
        ELSE IF users[r.user].company # resourceCompanyId THEN
            Deny(403, Envelope("Access denied to resources from different company",
                               "CROSS_COMPANY_ACCESS_DENIED"), r)
        ELSE
            Pass(r)

VerifyCompanyAccess ==
    /\ Running("verifyCompanyAccess")
    /\ UNCHANGED <<others, users, companies, departments, tasks, notifications, pushes, err, session>>
    /\ Apply("verifyCompanyAccess", verifyCompanyAccess(req))

(***************************************************************************)
(* authMiddleware.js: verifyDepartmentAccess                               *)
(***************************************************************************)
\* The department reads with the route parameter taking precedence.
ResourceDepartmentId_paramsFirst(r) ==
    IF r.params.departmentId # NONE THEN r.params.departmentId
    ELSE IF r.body.department # NONE THEN r.body.department
    ELSE r.query.department

\* The three reads of lines 171-187: each later source overrides the earlier.
ResourceDepartmentId(r) ==
    IF r.query.department # NONE THEN r.query.department
    ELSE IF r.body.department # NONE THEN r.body.department
    ELSE r.params.departmentId

\* The managed-departments query without its managers filter.
ManagedDepartments_wholeCompany(company, userId) ==
    {d \in DOMAIN departments : departments[d].company = company}

\* Department.find({company, managers: {$in: [userId]}})
ManagedDepartments(company, userId) ==
    {d \in DOMAIN departments :
        departments[d].company = company /\ userId \in departments[d].managers}

verifyDepartmentAccess(r) ==
    IF r.user = NONE THEN
        Deny(401, Envelope("Authentication required", "AUTHENTICATION_REQUIRED"), r)
    ELSE IF users[r.user].role = "SuperAdmin" THEN
        Pass(r)
    ELSE LET resourceDepartmentId == ResourceDepartmentId(r)
             user == users[r.user] IN
        IF resourceDepartmentId = NONE THEN
            Pass(r)
        ELSE IF r.storeFault \/ resourceDepartmentId = BadId THEN
            \* Department.findById rejects (store failure or CastError)
            Deny(500, Envelope("Internal server error during department access verification",
                               "DEPARTMENT_ACCESS_ERROR"), r)
        ELSE IF resourceDepartmentId \notin DOMAIN departments THEN
            Deny(404, Envelope("Department not found", "DEPARTMENT_NOT_FOUND"), r)
        ELSE IF departments[resourceDepartmentId].company # user.company THEN
            Deny(403, Envelope("Access denied to department from different company",
                               "CROSS_COMPANY_ACCESS_DENIED"), r)
        ELSE IF /\ user.role = "Manager"
                /\ ~(\/ user.department = resourceDepartmentId
                     \/ resourceDepartmentId \in ManagedDepartments(user.company, r.user)) THEN
            Deny(403, Envelope("Access denied to this department", "DEPARTMENT_ACCESS_DENIED"), r)
        ELSE IF user.role = "User" /\ user.department # resourceDepartmentId THEN
            Deny(403, Envelope("Access denied to department outside your scope",
                               "DEPARTMENT_ACCESS_DENIED"), r)
        ELSE
            Pass([r EXCEPT !.resourceDepartment = resourceDepartmentId])

VerifyDepartmentAccess ==
    /\ Running("verifyDepartmentAccess")
    /\ UNCHANGED <<others, users, companies, departments, tasks, notifications, pushes, err, session>>
    /\ Apply("verifyDepartmentAccess", verifyDepartmentAccess(req))

(***************************************************************************)
(* authMiddleware.js: canManageUsers                                       *)
(***************************************************************************)
\* req.params.userId || req.body.userId
TargetUserId(r) == IF r.params.userId # NONE THEN r.params.userId ELSE r.body.userId

\* canManageUsers without the check on the target's role.
canManageUsers_noPrivilegeCheck(r) ==
    IF r.user = NONE THEN
        Deny(401, Envelope("Authentication required", "AUTHENTICATION_REQUIRED"), r)
    ELSE IF users[r.user].role = "SuperAdmin" THEN
        Pass(r)
    ELSE IF users[r.user].role = "Manager" THEN
        LET targetUserId == TargetUserId(r) IN
        IF targetUserId = NONE THEN
            Pass(r)
        ELSE IF r.storeFault \/ targetUserId = BadId THEN
            Deny(500, Envelope("Internal server error during user management authorization",
                               "USER_MANAGEMENT_ERROR"), r)
        ELSE IF targetUserId \notin DOMAIN users THEN
            Deny(404, Envelope("Target user not found", "USER_NOT_FOUND"), r)
        ELSE IF users[targetUserId].department # users[r.user].department THEN
            Deny(403, Envelope("Cannot manage users outside your department",
                               "DEPARTMENT_MANAGEMENT_DENIED"), r)
        ELSE
            Pass(r)
    ELSE
        Deny(403, Envelope("Insufficient permissions to manage users",
                           "USER_MANAGEMENT_DENIED"), r)

canManageUsers(r) ==
    IF r.user = NONE THEN
        Deny(401, Envelope("Authentication required", "AUTHENTICATION_REQUIRED"), r)
    ELSE IF users[r.user].role = "SuperAdmin" THEN
        Pass(r)
    ELSE IF users[r.user].role = "Manager" THEN
        LET targetUserId == TargetUserId(r) IN
        IF targetUserId = NONE THEN
            Pass(r)
        ELSE IF r.storeFault \/ targetUserId = BadId THEN
            \* User.findById rejects (store failure or CastError)
            Deny(500, Envelope("Internal server error during user management authorization",
                               "USER_MANAGEMENT_ERROR"), r)
        ELSE IF targetUserId \notin DOMAIN users THEN
            Deny(404, Envelope("Target user not found", "USER_NOT_FOUND"), r)
        ELSE IF users[targetUserId].department # users[r.user].department THEN
            Deny(403, Envelope("Cannot manage users outside your department",
                               "DEPARTMENT_MANAGEMENT_DENIED"), r)
        ELSE IF users[targetUserId].role \in {"Manager", "SuperAdmin"} THEN
            Deny(403, Envelope("Cannot manage users with equal or higher privileges",
                               "PRIVILEGE_MANAGEMENT_DENIED"), r)
        ELSE
            Pass(r)
    ELSE
        Deny(403, Envelope("Insufficient permissions to manage users",
                           "USER_MANAGEMENT_DENIED"), r)

CanManageUsers ==
    /\ Running("canManageUsers")
    /\ UNCHANGED <<others, users, companies, departments, tasks, notifications, pushes, err, session>>
    /\ Apply("canManageUsers", canManageUsers(req))

(***************************************************************************)
(* TaskController.js: createTask                                           *)
(***************************************************************************)
\* The instant new Date() returns while the request is served; a dueDate is
\* 0 when absent, NotADate when it does not parse, else an instant.
Now == 2
NotADate == -1

\* An assignedTo key that is absent from the body (an empty list is << >>).
AbsentList == << NONE >>

\* Phone numbers are sequences of characters.
Digits == {"0", "1", "2", "3", "4", "5", "6", "7", "8", "9"}
LocalPhone == << "0", "9", "1", "2", "3", "4", "5", "6", "7", "8" >>
CanonicalPhone == << "+", "2", "5", "1", "9", "1", "2", "3", "4", "5", "6", "7", "8" >>
ShortPhone == << "0", "9", "1", "2" >>

ClientInfo(present, name, phone) == [present |-> present, name |-> name, phone |-> phone]
NoClientInfo == ClientInfo(FALSE, NONE, << >>)

StartsWith(s, prefix) ==
    Len(s) >= Len(prefix) /\ SubSeq(s, 1, Len(prefix)) = prefix

\* ProjectTaskModel.js validator: /^(09\d{8}|\+2519\d{8})$/
PhoneIsValid(v) ==
    \/ /\ Len(v) = 10 /\ StartsWith(v, <<"0", "9">>)
       /\ \A i \in 3..10 : v[i] \in Digits
    \/ /\ Len(v) = 13 /\ StartsWith(v, <<"+", "2", "5", "1", "9">>)
       /\ \A i \in 6..13 : v[i] \in Digits

\* ProjectTaskModel.js pre("save"): phone.replace("09", "+2519") when the
\* phone starts with "09".
FormatPhone(v) ==
    IF StartsWith(v, <<"0", "9">>)
    THEN <<"+", "2", "5", "1", "9">> \o SubSeq(v, 3, Len(v))
    ELSE v

\* The two listings of models/ProjectTaskModel.js in the source: the named
\* file, whose schema has the pre("save") hook of lines 34-41, and part_000,
\* whose schema ends without a hook.
ProjectTaskModels == {"ProjectTaskModel.js", "part_000"}

\* clientInfo.phone as a save of a ProjectTask writes it.
SavedPhone(v) ==
    IF projectTaskModel = "part_000" THEN v ELSE FormatPhone(v)

\* The natural order in which User.find returns the documents.
UserOrder == << "sa", "m1", "m2", "m3", "u1", "u2", "x1" >>

Range(s) == {s[i] : i \in 1..Len(s)}

\* Lines 101-106 without the isActive condition.
AssignedUsers_anyActivity(assignedTo, creator) ==
    LET Match(u) == /\ u \in DOMAIN users
                    /\ u \in Range(assignedTo)
                    /\ users[u].company = users[creator].company
                    /\ users[u].department = users[creator].department
    IN SelectSeq(UserOrder, Match)

\* Lines 101-106: User.find({_id: {$in: assignedTo}, company, department,
\* isActive: true})
AssignedUsers(assignedTo, creator) ==
    LET Match(u) == /\ u \in DOMAIN users
                    /\ u \in Range(assignedTo)
                    /\ users[u].company = users[creator].company
                    /\ users[u].department = users[creator].department
                    /\ users[u].isActive
    IN SelectSeq(UserOrder, Match)

\* Lines 148-153 with the role condition widened to every role.
ManagersAndAdmins_anyRole(creator) ==
    LET Match(u) == /\ u \in DOMAIN users
                    /\ users[u].company = users[creator].company
                    /\ users[u].department = users[creator].department
                    /\ users[u].isActive
    IN SelectSeq(UserOrder, Match)

\* Lines 148-153: User.find({company, department, role: {$in: ["Manager",
\* "SuperAdmin"]}, isActive: true})
ManagersAndAdmins(creator) ==
    LET Match(u) == /\ u \in DOMAIN users
                    /\ users[u].company = users[creator].company
                    /\ users[u].department = users[creator].department
                    /\ users[u].role \in {"Manager", "SuperAdmin"}
                    /\ users[u].isActive
    IN SelectSeq(UserOrder, Match)

\* Lines 119-122 and 155-158: the found users except the creator.
NotificationReceivers(found, creator) ==
    LET NotCreator(u) == u # creator IN SelectSeq(found, NotCreator)

\* new CustomError(message, statusCode, errorCode)
CustomError(status, code) == [status |-> status, code |-> code]

\* Phases 1 and 2 (lines 19-159): the error handed to next, NoErr when the
\* request is valid.
CreateTaskValidation(body, creator) ==
    IF \/ body.title = NONE \/ body.description = NONE \/ body.dueDate = 0
       \/ body.taskType = NONE \/ body.location = NONE THEN
        CustomError(400, "MISSING_REQUIRED_FIELDS")
    ELSE IF body.taskType \notin {"AssignedTask", "ProjectTask"} THEN
        CustomError(400, "INVALID_TASK_TYPE")
    ELSE IF body.dueDate = NotADate THEN
        CustomError(400, "INVALID_DUE_DATE")
    ELSE IF body.dueDate < Now THEN
        CustomError(400, "PAST_DUE_DATE")
    ELSE IF body.taskType = "AssignedTask" THEN
        IF body.assignedTo = AbsentList \/ body.assignedTo = << >> THEN
            CustomError(400, "MISSING_ASSIGNED_USERS")
        ELSE IF BadId \in Range(body.assignedTo) THEN
            CustomError(400, "INVALID_USER_ID")
        ELSE IF Len(AssignedUsers(body.assignedTo, creator)) # Len(body.assignedTo) THEN
            CustomError(404, "INVALID_ASSIGNED_USERS")
        ELSE NoErr
    ELSE
        IF ~body.clientInfo.present THEN
            CustomError(400, "MISSING_CLIENT_INFO")
        ELSE IF body.clientInfo.name = NONE \/ body.clientInfo.phone = << >> THEN
            CustomError(400, "MISSING_CLIENT_DETAILS")
        ELSE NoErr

\* Lines 169-198 and the pre-save hook: the document task.save() writes.
NewTask(id, body, creator) ==
    [id |-> id,
     taskType |-> body.taskType,
     title |-> body.title,
     description |-> body.description,
     location |-> body.location,
     dueDate |-> body.dueDate,
     priority |-> IF body.priority = NONE THEN "Medium" ELSE body.priority,
     status |-> IF body.status = NONE THEN "To Do" ELSE body.status,
     createdBy |-> creator,
     company |-> users[creator].company,
     department |-> users[creator].department,
     assignedTo |-> IF body.taskType = "AssignedTask" THEN body.assignedTo ELSE AbsentList,
     clientInfo |-> IF body.taskType = "ProjectTask"
                    THEN [body.clientInfo EXCEPT !.phone = SavedPhone(@)]
                    ELSE NoClientInfo]

\* Lines 203-214: one notification per receiver.
NewNotifications(receivers, task, creator) ==
    [i \in 1..Len(receivers) |->
        [user |-> receivers[i], type |-> "TaskAssignment", message |-> "New task",
         task |-> task.id,
         company |-> users[creator].company, department |-> users[creator].department]]

\* Lines 218-224: one push per notification, to the managers' room for a
\* ProjectTask and to the user otherwise.
NewPushes(notifs, taskType) ==
    [i \in 1..Len(notifs) |->
        [to |-> notifs[i].user,
         via |-> IF taskType = "ProjectTask" THEN "emitToManagers" ELSE "emitToUser",
         event |-> IF taskType = "ProjectTask" THEN "New Project Task Created"
                   ELSE "New Task Assignment",
         task |-> notifs[i].task,
         delivered |-> TRUE]]

\* The operation of the request that fails, "none" when all succeed: a store
\* operation of the transaction rejects, or ("emit") the push transport
\* fails to deliver.
Faults == {"none", "startSession", "save", "insertMany", "emit", "findById", "commit"}

\* The error a rejected store operation throws; it carries no error code of
\* the application, the model records the operation instead.
StoreError(op) == [status |-> 500, code |-> op]

\* emitToUser / emitToManagers with a failing transport throw into the
\* controller.
EmitThrows_propagates(delivered) == ~delivered

\* utils/SocketEmitter.js, emitToUser / emitToManagers: a delivery failure is
\* logged and otherwise silent, nothing is thrown into the caller.
EmitThrows(delivered) == FALSE

\* The pushes handed to the emitter, marked with what the transport did.
Emitted(batch, delivered) ==
    [i \in 1..Len(batch) |-> [batch[i] EXCEPT !.delivered = delivered]]

\* The order of the operations inside the try block of createTask (lines
\* 165-247).
TransactionSteps == << "save", "insertMany", "emit", "findById", "commit" >>

StepIndex(steps, op) == CHOOSE i \in 1..Len(steps) : steps[i] = op

\* Operation op has completed when a try block made of steps is left at
\* operation failed ("none": it ran to its end).
Completed(steps, op, failed) ==
    failed = "none" \/ StepIndex(steps, op) < StepIndex(steps, failed)

\* The first of steps that fails, "none" when none does.
FirstFailure(steps, fails) ==
    IF \E i \in 1..Len(steps) : fails[steps[i]]
    THEN steps[CHOOSE i \in 1..Len(steps) :
                  fails[steps[i]] /\ \A j \in 1..(i - 1) : ~fails[steps[j]]]
    ELSE "none"

\* task.save({ session }) as the transaction sees the collection: the
\* document replaces the one of its id, or is added.
SaveTask(store, task) ==
    IF task.id \in 1..Len(store) THEN [store EXCEPT ![task.id] = task]
    ELSE Append(store, task)

\* The calls without the finally block on the path that returns from inside
\* the try block.
SessionCalls_noFinally(exit) ==
    CASE exit = "committed" ->
            << "startSession", "startTransaction", "commitTransaction", "json", "endSession" >>
      [] exit = "commitFailed" ->
            << "startSession", "startTransaction", "commitTransaction", "abortTransaction",
               "next", "endSession" >>
      [] exit = "thrown" ->
            << "startSession", "startTransaction", "abortTransaction", "next", "endSession" >>
      [] exit = "returned" ->
            << "startSession", "startTransaction", "next" >>
      [] exit = "afterCommit" ->
            << "startSession", "startTransaction", "commitTransaction", "abortTransaction",
               "endSession", "next" >>

\* The calls a controller makes on its session, on next and on the response,
\* in their order, from startSession on, by the way the try block is left
\* (createTask lines 163-256, updateTaskById lines 397-643, registerUser
\* lines 892-978): "committed" when it runs to its end, "commitFailed" when
\* commitTransaction rejects, "thrown" when an earlier statement throws,
\* "returned" for the return next(...) inside the try block (line 405),
\* "afterCommit" when a statement behind commitTransaction throws, so that
\* abortTransaction rejects in the catch and asyncHandler calls next.
SessionCalls(exit) ==
    CASE exit = "committed" ->
            << "startSession", "startTransaction", "commitTransaction", "json", "endSession" >>
      [] exit = "commitFailed" ->
            << "startSession", "startTransaction", "commitTransaction", "abortTransaction",
               "next", "endSession" >>
      [] exit = "thrown" ->
            << "startSession", "startTransaction", "abortTransaction", "next", "endSession" >>
      [] exit = "returned" ->
            << "startSession", "startTransaction", "next", "endSession" >>
      [] exit = "afterCommit" ->
            << "startSession", "startTransaction", "commitTransaction", "abortTransaction",
               "endSession", "next" >>

\* How the try block is left when its first failing operation is failed.
ExitOf(failed) ==
    CASE failed = "none" -> "committed"
      [] failed = "commit" -> "commitFailed"
      [] OTHER -> "thrown"

\* The session with the calls made on it.
WithCalls(s, exit) == [s EXCEPT !.calls = SessionCalls(exit)]

\* A store in which writes made in a session outlive abortTransaction.
Persist_noRollback(state, store, staged) == staged

\* Lines 241 and 250: what a collection holds once the session has ended;
\* the writes of the session reach it with commitTransaction and are
\* discarded by abortTransaction.
Persist(state, store, staged) == IF state = "committed" THEN staged ELSE store

\* The fields of a request body that only the task controllers read.
TaskFields(taskType, title, description, location, dueDate, assignedTo, clientInfo) ==
    [taskType |-> taskType, title |-> title, description |-> description,
     location |-> location, dueDate |-> dueDate, priority |-> NONE, status |-> NONE,
     assignedTo |-> assignedTo, clientInfo |-> clientInfo]

\* The request body: the scope fields the middleware has read (and
\* defaulted) together with the task fields.
WithScope(input, scope) ==
    [k \in DOMAIN input \cup DOMAIN scope |->
        IF k \in DOMAIN scope THEN scope[k] ELSE input[k]]

MaxAssignees == 2
MaxTasks == 1

AssigneeInputs == {"m1", "u1", "m3", "u2", "x1", UnknownId, BadId}

AssigneeLists ==
    {AbsentList, << >>}
    \cup UNION {[1..n -> AssigneeInputs] : n \in 1..MaxAssignees}

ClientInfos ==
    {NoClientInfo, ClientInfo(TRUE, NONE, LocalPhone), ClientInfo(TRUE, "client", << >>),
     ClientInfo(TRUE, "client", LocalPhone), ClientInfo(TRUE, "client", CanonicalPhone),
     ClientInfo(TRUE, "client", ShortPhone)}

\* The bodies POST /tasks is exercised with.
CreateInputs ==
    {TaskFields("AssignedTask", "title", "text", "site", Now + 1, a, NoClientInfo) :
        a \in AssigneeLists}
    \cup {TaskFields("ProjectTask", "title", "text", "site", Now + 1, AbsentList, c) :
        c \in ClientInfos}
    \cup {TaskFields("AssignedTask", NONE, "text", "site", Now + 1, <<"u1">>, NoClientInfo),
          TaskFields(NONE, "title", "text", "site", Now + 1, <<"u1">>, NoClientInfo),
          TaskFields("RoutineTask", "title", "text", "site", Now + 1, <<"u1">>, NoClientInfo),
          TaskFields("AssignedTask", "title", "text", "site", NotADate, <<"u1">>, NoClientInfo),
          TaskFields("AssignedTask", "title", "text", "site", Now - 1, <<"u1">>, NoClientInfo)}

CreateTask ==
    /\ Running("createTask")
    /\ UNCHANGED <<others, users, companies, departments>>
    /\ \E input \in CreateInputs, fault \in Faults :
        LET creator == req.user
            body == WithScope(input, req.body)
            invalid == CreateTaskValidation(body, creator)
            found == IF body.taskType = "AssignedTask"
                     THEN AssignedUsers(body.assignedTo, creator)
                     ELSE ManagersAndAdmins(creator)
            receivers == NotificationReceivers(found, creator)
            task == NewTask(Len(tasks) + 1, body, creator)
            notifs == NewNotifications(receivers, task, creator)
            saveFails == \/ fault = "save"
                         \/ (body.taskType = "ProjectTask"
                             /\ ~PhoneIsValid(body.clientInfo.phone))
            \* the operation at which the try block is left for the catch
            failed == IF saveFails THEN "save"
                      ELSE IF fault \in {"insertMany", "emit"} /\ Len(notifs) = 0 THEN "none"
                      ELSE IF fault = "emit" THEN
                          (IF EmitThrows(FALSE) THEN "emit" ELSE "none")
                      ELSE IF fault = "startSession" THEN "none"
                      ELSE fault
            state == IF failed = "none" THEN "committed" ELSE "aborted"
            saved == IF Completed(TransactionSteps, "save", failed) THEN << task >> ELSE << >>
            inserted == IF Completed(TransactionSteps, "insertMany", failed) THEN notifs
                        ELSE << >>
            emitted == IF Completed(TransactionSteps, "insertMany", failed)
                       THEN Emitted(NewPushes(notifs, body.taskType), fault # "emit")
                       ELSE << >>
            done == [req EXCEPT !.chain = << >>, !.ran = Append(@, "createTask"),
                                !.body = body]
        IN
        /\ req' = done
        /\ IF invalid # NoErr THEN
               \* return next(new CustomError(...)) before any write
               /\ err' = invalid
               /\ UNCHANGED <<tasks, notifications, pushes, res, session>>
           ELSE IF fault = "startSession" THEN
               /\ err' = StoreError("startSession")
               /\ UNCHANGED <<tasks, notifications, pushes, res, session>>
           ELSE
               /\ saved # << >> => Len(tasks) < MaxTasks
               /\ session' = WithCalls(Session(state, saved, inserted), ExitOf(failed))
               /\ tasks' = Persist(state, tasks,
                                   IF saved = << >> THEN tasks ELSE SaveTask(tasks, task))
               /\ notifications' = Persist(state, notifications, notifications \o inserted)
               \* the pushes of lines 218-224 are emitted before the commit
               /\ pushes' = pushes \o emitted
               /\ IF failed = "none" THEN
                      /\ res' = [sent |-> res.sent + 1, by |-> "createTask", status |-> 201,
                                 body |-> [success |-> TRUE, message |-> "created successfully",
                                           data |-> task]]
                      /\ err' = err
                  ELSE
                      \* catch: abortTransaction, next(error)
                      /\ err' = StoreError(failed)
                      /\ res' = res

(***************************************************************************)
(* TaskController.js: getAllTasks and getTaskById                          *)
(***************************************************************************)
\* Task ids are positions in the task collection. A well-formed id that no
\* task has, and a string that is not an ObjectId.
UnknownTask == 0
MalformedTask == -1

TaskIdInputs == {MalformedTask, UnknownTask} \cup 1..MaxTasks

\* req.params once the router has bound :taskId.
WithTaskId(params, taskId) ==
    [k \in DOMAIN params \cup {"taskId"} |-> IF k = "taskId" THEN taskId ELSE params[k]]

\* Task.findById(taskId): the document, found is FALSE when there is none.
FindTask(taskId) ==
    IF taskId \in 1..Len(tasks) THEN [found |-> TRUE, doc |-> tasks[taskId]]
    ELSE [found |-> FALSE, doc |-> NONE]

\* The query parameters getAllTasks reads (line 263) beside page and limit.
ListQuery(status, taskType, departmentId) ==
    [status |-> status, taskType |-> taskType, departmentId |-> departmentId]

ListQueries ==
    {ListQuery(s, t, d) : s \in {NONE, "Completed"}, t \in {NONE, "ProjectTask"},
                          d \in {NONE, "d2", BadId}}

\* Lines 267-301 without the restriction of lines 282-285 for role User.
TaskQuery_noRoleFilter(q, userId) ==
    [company |-> users[userId].company,
     department |-> IF q.departmentId # NONE /\ users[userId].role = "SuperAdmin"
                    THEN q.departmentId ELSE users[userId].department,
     status |-> q.status,
     taskType |-> q.taskType,
     assignedTo |-> NONE]

\* Lines 267-301: the filter handed to Task.paginate.
TaskQuery(q, userId) ==
    [company |-> users[userId].company,
     department |-> IF q.departmentId # NONE /\ users[userId].role = "SuperAdmin"
                    THEN q.departmentId ELSE users[userId].department,
     status |-> q.status,
     taskType |-> IF users[userId].role = "User" THEN "AssignedTask" ELSE q.taskType,
     assignedTo |-> IF users[userId].role = "User" THEN userId ELSE NONE]

\* A task document satisfies the filter.
MatchesQuery(task, filter) ==
    /\ task.company = filter.company
    /\ task.department = filter.department
    /\ filter.status # NONE => task.status = filter.status
    /\ filter.taskType # NONE => task.taskType = filter.taskType
    /\ filter.assignedTo # NONE
          => (task.assignedTo # AbsentList /\ filter.assignedTo \in Range(task.assignedTo))

\* Line 319: the documents of the first page (the collection holds fewer
\* tasks than the page limit).
Paginate(filter) ==
    LET Match(t) == MatchesQuery(t, filter) IN SelectSeq(tasks, Match)

GetAllTasks ==
    /\ Running("getAllTasks")
    /\ UNCHANGED <<others, users, companies, departments, tasks, notifications, pushes, session>>
    /\ \E q \in ListQueries :
        /\ req' = [req EXCEPT !.chain = << >>, !.ran = Append(@, "getAllTasks"),
                              !.query = WithScope(q, req.query)]
        /\ IF q.departmentId = BadId THEN
               /\ err' = CustomError(400, "INVALID_DEPARTMENT_ID")
               /\ res' = res
           ELSE
               /\ res' = [sent |-> res.sent + 1, by |-> "getAllTasks", status |-> 200,
                          body |-> [success |-> TRUE,
                                    message |-> "Tasks retrieved successfully",
                                    data |-> Paginate(TaskQuery(q, req.user))]]
               /\ err' = err

\* Lines 337-362: the error getTaskById hands to next, NoErr when the task is
\* returned. A ProjectTask document has no assignedTo, so reading
\* task.assignedTo.includes raises a TypeError.
getTaskById(taskId, userId) ==
    LET task == FindTask(taskId) IN
    IF taskId = MalformedTask THEN CustomError(400, "INVALID_TASK_ID")
    ELSE IF ~task.found THEN CustomError(404, "TASK_NOT_FOUND")
    ELSE IF users[userId].role = "User" THEN
        IF task.doc.assignedTo = AbsentList THEN [status |-> 500, code |-> "TypeError"]
        ELSE IF userId \notin Range(task.doc.assignedTo) THEN CustomError(403, "FORBIDDEN")
        ELSE NoErr
    ELSE NoErr

GetTaskById ==
    /\ Running("getTaskById")
    /\ UNCHANGED <<others, users, companies, departments, tasks, notifications, pushes, session>>
    /\ \E taskId \in TaskIdInputs :
        LET failure == getTaskById(taskId, req.user) IN
        /\ req' = [req EXCEPT !.chain = << >>, !.ran = Append(@, "getTaskById"),
                              !.params = WithTaskId(req.params, taskId)]
        /\ IF failure # NoErr THEN
               /\ err' = failure
               /\ res' = res
           ELSE
               /\ res' = [sent |-> res.sent + 1, by |-> "getTaskById", status |-> 200,
                          body |-> [success |-> TRUE,
                                    message |-> "Task retrieved successfully",
                                    data |-> tasks[taskId]]]
               /\ err' = err

(***************************************************************************)
(* TaskController.js: updateTaskById                                       *)
(***************************************************************************)
\* The authorization check with the creator clause left out.
MayUpdate_departmentOnly(task, actor) ==
    /\ users[actor].role \in {"SuperAdmin", "Manager"}
    /\ task.department = users[actor].department

\* Lines 409-413: isCreator || (isManagerPlus && validDepartment)
MayUpdate(task, actor) ==
    \/ task.createdBy = actor
    \/ /\ users[actor].role \in {"SuperAdmin", "Manager"}
       /\ task.department = users[actor].department

\* The try block with the authorization check moved behind the writes and
\* the pushes.
UpdateSteps_authorizeLast ==
    << "validate", "save", "insertMany", "emit", "findById", "authorize", "commit" >>

\* The order of the operations inside the try block of updateTaskById once
\* the task is found (lines 408-630).
UpdateSteps ==
    << "authorize", "validate", "save", "insertMany", "emit", "findById", "commit" >>

\* The task fields of a PUT body; protected adds values for the fields the
\* controller must not apply.
UpdateData(title, description, location, dueDate, priority, assignedTo, clientInfo, protected) ==
    [title |-> title, description |-> description, location |-> location,
     dueDate |-> dueDate, priority |-> priority,
     assignedTo |-> assignedTo, clientInfo |-> clientInfo,
     taskType |-> IF protected THEN "RoutineTask" ELSE NONE,
     createdBy |-> IF protected THEN "u2" ELSE NONE,
     status |-> IF protected THEN "Completed" ELSE NONE]

\* Key k is present in the body.
Present(body, k) ==
    CASE k = "dueDate" -> body.dueDate # 0
      [] k = "assignedTo" -> body.assignedTo # AbsentList
      [] k = "clientInfo" -> body.clientInfo.present
      [] OTHER -> body[k] # NONE

\* Object.keys(updateData)
UpdateKeys(body) == {k \in DOMAIN body : Present(body, k)}

\* Line 427
ProtectedFields == {"taskType", "createdBy", "department", "status"}

\* Lines 431-439
AllowedUpdates(taskType) ==
    {"title", "description", "location", "dueDate", "priority"}
    \cup (IF taskType = "AssignedTask" THEN {"assignedTo"} ELSE {})
    \cup (IF taskType = "ProjectTask" THEN {"clientInfo"} ELSE {})

\* Every key of the body that names a path of the document is applied.
AppliedKeys_unfiltered(body, task) == UpdateKeys(body) \cap DOMAIN task

\* Lines 427-444: the keys of the body that are applied to the document.
AppliedKeys(body, task) ==
    (UpdateKeys(body) \ ProtectedFields) \cap AllowedUpdates(task.taskType)

\* Lines 443-453: the document with the updates assigned.
ApplyUpdates(task, body) ==
    LET keys == AppliedKeys(body, task) IN
    [k \in DOMAIN task |-> IF k \in keys THEN body[k] ELSE task[k]]

\* arraysEqual is called at lines 448 and 483 and defined in none of the
\* sources read; the design speaks of a change of the assignee set.
arraysEqual(a, b) == Range(a) = Range(b)

\* Lines 445-449
HasAssignedToChange(task, body) ==
    /\ "assignedTo" \in AppliedKeys(body, task)
    /\ ~arraysEqual(body.assignedTo, task.assignedTo)

\* Lines 457-461: User.countDocuments({_id: {$in: assignedTo}, company,
\* department}) with the company and department of the acting user.
ValidUsers(assignedTo, actor) ==
    Cardinality({u \in Range(assignedTo) \cap DOMAIN users :
                    /\ users[u].company = users[actor].company
                    /\ users[u].department = users[actor].department})

\* Lines 468-488
ChangedFields(task, updated, body) ==
    {k \in AppliedKeys(body, task) : updated[k] # task[k]}
    \cup (IF task.taskType = "AssignedTask"
             /\ ~arraysEqual(updated.assignedTo, task.assignedTo)
          THEN {"assignedTo"} ELSE {})

\* The important fields with description among them.
ImportantFields_withDescription == {"title", "dueDate", "priority", "companyInfo", "description"}

\* Lines 519-524
ImportantFields == {"title", "dueDate", "priority", "companyInfo"}

\* Lines 561-566: User.find({company, department, role: {$in: ["Manager",
\* "SuperAdmin"]}, _id: {$ne: user._id}})
Leaders(actor) ==
    LET Match(u) == /\ u \in DOMAIN users
                    /\ users[u].company = users[actor].company
                    /\ users[u].department = users[actor].department
                    /\ users[u].role \in {"Manager", "SuperAdmin"}
                    /\ u # actor
    IN SelectSeq(UserOrder, Match)

\* One notification document of the update (lines 505-513 and alike).
UpdateNotification(userId, message, task, actor) ==
    [user |-> userId, type |-> "TaskUpdate", message |-> message, task |-> task.id,
     company |-> users[actor].company, department |-> users[actor].department]

\* Lines 494-580: the notifications of an update, in the order they are
\* pushed on the list.
UpdateNotifications(task, updated, actor, assignedToChange, importantChange) ==
    LET IsNew(u) == u \notin Range(task.assignedTo)
        NotActor(u) == u # actor
        Notify(receivers, message) ==
            [i \in 1..Len(receivers) |->
                UpdateNotification(receivers[i], message, task, actor)]
        newAssignees ==
            IF task.taskType = "AssignedTask" /\ assignedToChange
            THEN Notify(SelectSeq(updated.assignedTo, IsNew), "Assigned to task")
            ELSE << >>
        creator ==
            IF task.createdBy # actor THEN Notify(<< task.createdBy >>, "Task updated")
            ELSE << >>
        stakeholders ==
            IF task.taskType = "AssignedTask"
            THEN Notify(SelectSeq(task.assignedTo, NotActor), "Task modified")
            ELSE Notify(Leaders(actor), "Project task updated")
    IN newAssignees \o (IF importantChange THEN creator \o stakeholders ELSE << >>)

\* Lines 585-587
UpdatePushes(notifs) ==
    [i \in 1..Len(notifs) |->
        [to |-> notifs[i].user, via |-> "emitToUser", event |-> "notification-update",
         task |-> notifs[i].task, delivered |-> TRUE]]

\* The bodies PUT /tasks/:taskId is exercised with; the tasks of the model
\* are created with title "title", description "text", location "site", due
\* date Now + 1 and priority "Medium".
\* A schema that accepts an assignedTo list of any length.
AssignedToIsValid_anyLength(assignedTo) == TRUE

\* models/AssignedTaskModel.js, the validator of assignedTo that runs on
\* task.save(): the list holds at least one user.
AssignedToIsValid(assignedTo) == assignedTo # << >>

UpdateAssignees ==
    {<<"u1">>, <<"m1">>, <<"u1", "m1">>, <<"m1", "u1">>, <<"m3">>, <<"u1", "m3">>,
     <<"u2">>, <<UnknownId>>, <<BadId>>, << >>}

RetitleInput ==
    UpdateData("title2", NONE, NONE, 0, NONE, AbsentList, NoClientInfo, FALSE)

UpdateInputs ==
    {RetitleInput,
     UpdateData(NONE, "text2", "site2", 0, NONE, AbsentList, NoClientInfo, FALSE),
     UpdateData("title", "text", NONE, Now + 1, NONE, AbsentList, NoClientInfo, FALSE),
     UpdateData(NONE, NONE, NONE, Now + 2, NONE, AbsentList, NoClientInfo, FALSE),
     UpdateData(NONE, NONE, NONE, NotADate, NONE, AbsentList, NoClientInfo, FALSE),
     UpdateData(NONE, NONE, NONE, 0, "High", AbsentList, NoClientInfo, FALSE),
     UpdateData("title2", NONE, NONE, 0, NONE, AbsentList, NoClientInfo, TRUE),
     UpdateData(NONE, NONE, NONE, 0, NONE, AbsentList, NoClientInfo, TRUE),
     \* the current state of the stored tasks
     UpdateData("title", "text", "site", Now + 1, "Medium", <<"u1">>, NoClientInfo, FALSE),
     UpdateData("title", "text", "site", Now + 1, "Medium", AbsentList,
                ClientInfo(TRUE, "client", CanonicalPhone), FALSE)}
    \cup {UpdateData(NONE, NONE, NONE, 0, NONE, a, NoClientInfo, FALSE) :
            a \in UpdateAssignees}
    \cup {UpdateData(NONE, NONE, NONE, 0, NONE, AbsentList, c, FALSE) :
            c \in {ClientInfo(TRUE, "client2", LocalPhone),
                   ClientInfo(TRUE, "client", ShortPhone)}}

\* A body together with the operation that fails while it is served.
UpdateCases ==
    {<<input, "none">> : input \in UpdateInputs}
    \cup {<<RetitleInput, fault>> : fault \in Faults}

\* The :taskId of a PUT request together with its body and failing
\* operation.
UpdateCalls ==
    ((1..MaxTasks) \X UpdateCases)
    \cup ({MalformedTask, UnknownTask} \X {<<RetitleInput, "none">>})

UpdateTaskById ==
    /\ Running("updateTaskById")
    /\ UNCHANGED <<others, users, companies, departments>>
    /\ \E call \in UpdateCalls :
        LET taskId == call[1]
            input == call[2][1]
            fault == call[2][2]
            actor == req.user
            body == WithScope(input, req.body)
            task == FindTask(taskId).doc
            updated == ApplyUpdates(task, body)
            assignedToChange == HasAssignedToChange(task, body)
            \* lines 456-466
            invalid ==
                IF task.taskType # "AssignedTask" \/ body.assignedTo = AbsentList THEN NoErr
                ELSE IF BadId \in Range(body.assignedTo) THEN
                    [status |-> 500, code |-> "CastError"]
                ELSE IF ValidUsers(body.assignedTo, actor) # Len(body.assignedTo) THEN
                    CustomError(400, NONE)
                ELSE NoErr
            importantChange ==
                \/ ChangedFields(task, updated, body) \cap ImportantFields # {}
                \/ assignedToChange
            \* the document as task.save() writes it (schema validation and
            \* the pre-save hook of ProjectTaskModel.js)
            document ==
                IF updated.clientInfo.present
                THEN [updated EXCEPT !.clientInfo.phone = SavedPhone(@)]
                ELSE updated
            notifs == UpdateNotifications(task, document, actor, assignedToChange,
                                          importantChange)
            fails ==
                [op \in Range(UpdateSteps) |->
                    CASE op = "authorize" -> ~MayUpdate(task, actor)
                      [] op = "validate" -> invalid # NoErr
                      [] op = "save" ->
                            \/ fault = "save"
                            \/ updated.dueDate = NotADate
                            \/ /\ updated.taskType = "AssignedTask"
                               /\ ~AssignedToIsValid(updated.assignedTo)
                            \/ /\ updated.clientInfo.present
                               /\ \/ updated.clientInfo.name = NONE
                                  \/ ~PhoneIsValid(updated.clientInfo.phone)
                      [] op = "insertMany" -> fault = "insertMany" /\ Len(notifs) > 0
                      [] op = "emit" ->
                            fault = "emit" /\ Len(notifs) > 0 /\ EmitThrows(FALSE)
                      [] OTHER -> fault = op]
            failed == FirstFailure(UpdateSteps, fails)
            state == IF failed = "none" THEN "committed" ELSE "aborted"
            saved == IF Completed(UpdateSteps, "save", failed) THEN << document >>
                     ELSE << >>
            inserted == IF Completed(UpdateSteps, "insertMany", failed) THEN notifs
                        ELSE << >>
            emitted == IF Completed(UpdateSteps, "insertMany", failed)
                       THEN Emitted(UpdatePushes(notifs), fault # "emit")
                       ELSE << >>
            Fail(error, s) ==
                /\ err' = error
                /\ session' = s
                /\ UNCHANGED <<tasks, notifications, pushes, res>>
        IN
        /\ req' = [req EXCEPT !.chain = << >>, !.ran = Append(@, "updateTaskById"),
                              !.body = body, !.params = WithTaskId(req.params, taskId)]
        /\ IF taskId = MalformedTask THEN
               Fail(CustomError(400, "INVALID_TASK_ID"), session)
           ELSE IF users[actor].role = "User" THEN
               Fail(CustomError(403, "PERMISSION_DENIED"), session)
           ELSE IF fault = "startSession" THEN
               Fail(StoreError("startSession"), session)
           ELSE IF ~FindTask(taskId).found THEN
               \* return next(...) inside try: endSession ends the transaction
               Fail(CustomError(404, "TASK_NOT_FOUND"),
                    WithCalls(Session("aborted", << >>, << >>), "returned"))
           ELSE
               /\ session' = WithCalls(Session(state, saved, inserted), ExitOf(failed))
               /\ tasks' = Persist(state, tasks,
                                   IF saved = << >> THEN tasks ELSE SaveTask(tasks, document))
               /\ notifications' = Persist(state, notifications, notifications \o inserted)
               \* the pushes of lines 585-587 are emitted before the commit
               /\ pushes' = pushes \o emitted
               /\ IF failed = "none" THEN
                      /\ res' = [sent |-> res.sent + 1, by |-> "updateTaskById",
                                 status |-> 200,
                                 body |-> [success |-> TRUE,
                                           message |-> "Task updated successfully",
                                           data |-> document]]
                      /\ err' = err
                  ELSE
                      \* catch: abortTransaction, next(error)
                      /\ res' = res
                      /\ err' = CASE failed = "authorize" ->
                                        CustomError(403, "PERMISSION_DENIED")
                                  [] failed = "validate" -> invalid
                                  [] OTHER -> StoreError(failed)

(***************************************************************************)
(* Request construction.                                                   *)
(***************************************************************************)
Query(company, department) == [company |-> company, department |-> department]

Params(companyId, departmentId, userId) ==
    [companyId |-> companyId, departmentId |-> departmentId, userId |-> userId]

\* A body that carries only the scope fields the middleware reads.
ScopeBody(company, department, userId) ==
    [company |-> company, department |-> department, userId |-> userId]

Request(stack, token, query, body, params, user, storeFault) ==
    [chain |-> stack, ran |-> << >>, passed |-> << >>,
     cookies |-> [access_token |-> token],
     query |-> query, body |-> body, params |-> params,
     user |-> user, resourceDepartment |-> NONE, storeFault |-> storeFault]

\* The POST stack with authorizeRoles admitting every role.
PostTasksStack_usersAllowed ==
    << Handler("verifyJWT", {}),
       Handler("authorizeRoles", {"SuperAdmin", "Manager", "User"}),
       Handler("verifyCompanyAccess", {}),
       Handler("verifyDepartmentAccess", {}),
       Handler("createTask", {}) >>

\* TaskRoutes.js: router.post("/") stack
PostTasksStack ==
    << Handler("verifyJWT", {}),
       Handler("authorizeRoles", {"SuperAdmin", "Manager"}),
       Handler("verifyCompanyAccess", {}),
       Handler("verifyDepartmentAccess", {}),
       Handler("createTask", {}) >>

(***************************************************************************)
(* Specification of the session guard alone: every combination of the      *)
(* activation flags of the principal's user, company and department.       *)
(***************************************************************************)
InitGuard ==
    /\ \E v, a, ca, da \in BOOLEAN, st \in SubscriptionStatuses :
          /\ users = [BaseUsers EXCEPT !["m1"].isVerified = v, !["m1"].isActive = a]
          /\ companies = [BaseCompanies EXCEPT !["c1"] = Company(ca, st)]
          /\ departments = [BaseDepartments EXCEPT !["d1"].isActive = da]
    /\ tasks = << >> /\ notifications = << >> /\ pushes = << >>
    /\ \E t \in Tokens, f \in BOOLEAN :
          req = Request(PostTasksStack, t, Query(NONE, NONE), ScopeBody(NONE, NONE, NONE),
                        Params(NONE, NONE, NONE), NONE, f)
    /\ res = NoRes
    /\ err = NoErr
    /\ session = NoSession
    /\ Quiet

\* TaskRoutes.js: router.get("/") stack
GetTasksStack ==
    << Handler("verifyJWT", {}),
       Handler("authorizeRoles", {"SuperAdmin", "Manager", "User"}),
       Handler("verifyCompanyAccess", {}),
       Handler("verifyDepartmentAccess", {}),
       Handler("getAllTasks", {}) >>

\* TaskRoutes.js: router.get("/:taskId") stack
GetTaskStack ==
    << Handler("verifyJWT", {}),
       Handler("authorizeRoles", {"SuperAdmin", "Manager", "User"}),
       Handler("verifyCompanyAccess", {}),
       Handler("verifyDepartmentAccess", {}),
       Handler("getTaskById", {}) >>

\* TaskRoutes.js: router.put("/:taskId") stack
PutTaskStack ==
    << Handler("verifyJWT", {}),
       Handler("authorizeRoles", {"SuperAdmin", "Manager"}),
       Handler("verifyCompanyAccess", {}),
       Handler("verifyDepartmentAccess", {}),
       Handler("updateTaskById", {}) >>

TaskRoutes == {PostTasksStack, GetTasksStack, GetTaskStack, PutTaskStack}

\* No request is being served.
Idle ==
    Request(<< >>, Token("absent", NONE), Query(NONE, NONE), ScopeBody(NONE, NONE, NONE),
            Params(NONE, NONE, NONE), NONE, FALSE)

\* The router receives a request for one of the task routes.
Receive ==
    /\ req = Idle
    /\ \E stack \in TaskRoutes, t \in Tokens, f \in BOOLEAN,
          c \in {NONE, "c2"}, d \in {NONE, "d2"} :
          req' = Request(stack, t, Query(c, d), ScopeBody(NONE, NONE, NONE),
                         Params(NONE, NONE, NONE), NONE, f)
    /\ UNCHANGED <<others, users, companies, departments, tasks, notifications, pushes, res, err,
                   session>>

\* The request has been answered (a response was written or an error was
\* handed to the error handler) and leaves the server.
Done ==
    /\ req.chain = << >> /\ req # Idle
    /\ req' = Idle
    /\ res' = NoRes
    /\ err' = NoErr
    /\ session' = NoSession
    /\ pushes' = << >>
    /\ UNCHANGED <<others, users, companies, departments, tasks, notifications>>

Init ==
    /\ users = BaseUsers /\ companies = BaseCompanies /\ departments = BaseDepartments
    /\ tasks = << >> /\ notifications = << >> /\ pushes = << >>
    /\ req = Idle
    /\ res = NoRes
    /\ err = NoErr
    /\ session = NoSession
    /\ Quiet

Next ==
    \/ Receive
    \/ Done
    \/ VerifyJWT
    \/ AuthorizeRoles
    \/ VerifyCompanyAccess
    \/ VerifyDepartmentAccess
    \/ CreateTask

Spec == Init /\ [][Next]_vars

SpecGuard == InitGuard /\ [][VerifyJWT]_vars

(***************************************************************************)
(* Specification of the access-control evaluators alone: a request that    *)
(* already carries a principal, with every combination of scope fields.    *)
(***************************************************************************)
CompanyInputs == CompanyIds \cup {NONE}
DepartmentInputs == DepartmentIds \cup {NONE, UnknownId, BadId}
UserInputs == UserIds \cup {NONE, UnknownId, BadId}

InitScope ==
    /\ users = BaseUsers /\ companies = BaseCompanies /\ departments = BaseDepartments
    /\ tasks = << >> /\ notifications = << >> /\ pushes = << >>
    /\ res = NoRes
    /\ err = NoErr
    /\ session = NoSession
    /\ Quiet
    /\ \E u \in UserIds \cup {NONE}, f \in BOOLEAN :
          \/ \E q, b, p \in CompanyInputs :
                req = Request(SubSeq(PostTasksStack, 3, 5), Token("absent", NONE),
                              Query(q, NONE), ScopeBody(b, NONE, NONE),
                              Params(p, NONE, NONE), u, f)
          \/ \E q, b, p \in DepartmentInputs :
                req = Request(SubSeq(PostTasksStack, 4, 5), Token("absent", NONE),
                              Query(NONE, q), ScopeBody(NONE, b, NONE),
                              Params(NONE, p, NONE), u, f)
          \/ \E b, p \in UserInputs :
                req = Request(<<Handler("canManageUsers", {})>>, Token("absent", NONE),
                              Query(NONE, NONE), ScopeBody(NONE, NONE, b),
                              Params(NONE, NONE, p), u, f)

NextScope == VerifyCompanyAccess \/ VerifyDepartmentAccess \/ CanManageUsers

SpecScope == InitScope /\ [][NextScope]_vars

(***************************************************************************)
(* Specification of the task controllers: requests of authenticated        *)
(* principals on the four task routes, over an empty task collection or    *)
(* over a task that m1 created before being demoted or moved.              *)
(***************************************************************************)
MaxNotifications == 2

TaskPrincipals == {"sa", "m1", "m2", "u1", "x1"}

\* The router receives a request for one of the task routes. This
\* specification follows one task through the requests made on it: requests
\* are served while the notification collection holds fewer than
\* MaxNotifications documents, and POST requests while no task exists.
ReceiveTask ==
    /\ req = Idle
    /\ Len(notifications) < MaxNotifications
    /\ \E stack \in TaskRoutes, u \in TaskPrincipals, d \in {NONE, "d2"} :
          /\ stack = PostTasksStack => tasks = << >>
          /\ req' = Request(stack, Token("ok", u), Query(NONE, NONE), ScopeBody(NONE, d, NONE),
                         Params(NONE, NONE, NONE), NONE, FALSE)
    /\ UNCHANGED <<others, users, companies, departments, tasks, notifications, pushes, res, err,
                   session>>

\* The tasks m1 created while a Manager of d1.
EarlierTasks ==
    {NewTask(1, WithScope(input, ScopeBody(NONE, NONE, NONE)), "m1") :
        input \in {TaskFields("AssignedTask", "title", "text", "site", Now + 1,
                              <<"u1">>, NoClientInfo),
                   TaskFields("ProjectTask", "title", "text", "site", Now + 1,
                              AbsentList, ClientInfo(TRUE, "client", LocalPhone))}}

InitTasks ==
    /\ projectTaskModel = "ProjectTaskModel.js"
    /\ companies = BaseCompanies /\ departments = BaseDepartments
    /\ users \in {BaseUsers,
                  [BaseUsers EXCEPT !["m1"].role = "User"],
                  [BaseUsers EXCEPT !["m1"].department = "d2"]}
    /\ IF users = BaseUsers THEN tasks = << >>
       ELSE \E t \in EarlierTasks :
               tasks = << [t EXCEPT !.company = BaseUsers["m1"].company,
                                    !.department = BaseUsers["m1"].department] >>
    /\ notifications = << >> /\ pushes = << >>
    /\ req = Idle
    /\ res = NoRes
    /\ err = NoErr
    /\ session = NoSession
    /\ Quiet

NextTasks ==
    \/ ReceiveTask
    \/ Done
    \/ VerifyJWT
    \/ AuthorizeRoles
    \/ VerifyCompanyAccess
    \/ VerifyDepartmentAccess
    \/ CreateTask
    \/ GetAllTasks
    \/ GetTaskById
    \/ UpdateTaskById

SpecTasks == InitTasks /\ [][NextTasks]_vars

(***************************************************************************)
(* TaskActivityModel.js                                                    *)
(***************************************************************************)
\* The table with Completed as a final status.
validTransitions_completedFinal ==
    [from \in {"To Do", "In Progress", "Completed", "Pending"} |->
        CASE from = "To Do" -> {"In Progress", "Pending"}
          [] from = "In Progress" -> {"In Progress", "Completed", "Pending"}
          [] from = "Completed" -> {}
          [] from = "Pending" -> {"In Progress", "Completed"}]

\* Lines 5-10
validTransitions ==
    [from \in {"To Do", "In Progress", "Completed", "Pending"} |->
        CASE from = "To Do" -> {"In Progress", "Pending"}
          [] from = "In Progress" -> {"In Progress", "Completed", "Pending"}
          [] from = "Completed" -> {"Pending", "In Progress"}
          [] from = "Pending" -> {"In Progress", "Completed"}]

\* Object.keys(validTransitions), the enum of statusChange.from and
\* statusChange.to (lines 33 and 37)
StatusNames == DOMAIN validTransitions

\* A TaskActivity document as handed to the model.
TaskActivity(task, performedBy, description, from, to) ==
    [task |-> task, performedBy |-> performedBy, description |-> description,
     statusChange |-> [from |-> from, to |-> to]]

\* The schema with the pair of the status change held against the table.
ActivityIsValid_withTable(doc) ==
    /\ doc.task # UnknownTask
    /\ doc.performedBy # NONE
    /\ doc.description # NONE
    /\ doc.statusChange.to \in StatusNames
    /\ doc.statusChange.from # NONE
          => /\ doc.statusChange.from \in StatusNames
             /\ doc.statusChange.to \in validTransitions[doc.statusChange.from]

\* Lines 12-40, the validation of the schema: task, performedBy and
\* description are required, statusChange.to is required and one of the
\* status names, statusChange.from is one of the status names when present.
\* validTransitions is read for its keys only.
ActivityIsValid(doc) ==
    /\ doc.task # UnknownTask
    /\ doc.performedBy # NONE
    /\ doc.description # NONE
    /\ doc.statusChange.to \in StatusNames
    /\ doc.statusChange.from # NONE => doc.statusChange.from \in StatusNames

\* A collection in which a saved activity takes the place of the latest one.
AppendActivity_replaceLast(store, doc) ==
    IF store = << >> THEN << doc >> ELSE [store EXCEPT ![Len(store)] = doc]

\* Line 79, mongoose.model("TaskActivity"): save() of a new document inserts
\* it.
AppendActivity(store, doc) == Append(store, doc)

MaxActivities == 2

\* The documents the model is exercised with.
ActivityInputs ==
    {TaskActivity(t, u, d, from, to) :
        t \in {1}, u \in {"m1"}, d \in {"text"},
        from \in StatusNames \cup {NONE}, to \in StatusNames \cup {NONE, "Archived"}}
    \cup {TaskActivity(UnknownTask, "m1", "text", "To Do", "In Progress"),
          TaskActivity(1, NONE, "text", "To Do", "In Progress"),
          TaskActivity(1, "m1", NONE, "To Do", "In Progress")}

ValidationError == [status |-> 500, code |-> "ValidationError"]

\* new TaskActivity(doc).save(): the document is validated and inserted; the
\* document handed in is kept in req.body, the outcome in err.
SaveTaskActivity ==
    /\ Len(activities) < MaxActivities
    /\ \E doc \in ActivityInputs :
        /\ req' = [req EXCEPT !.body = doc]
        /\ IF ActivityIsValid(doc)
           THEN activities' = AppendActivity(activities, doc) /\ err' = NoErr
           ELSE activities' = activities /\ err' = ValidationError
    /\ UNCHANGED <<users, companies, departments, tasks, notifications, pushes, res,
                   session, routineTask, registered, registrations, refresh,
                   projectTaskModel>>

InitActivity ==
    /\ projectTaskModel = "ProjectTaskModel.js"
    /\ users = BaseUsers /\ companies = BaseCompanies /\ departments = BaseDepartments
    /\ \E t \in EarlierTasks : tasks = << t >>
    /\ notifications = << >> /\ pushes = << >>
    /\ req = Idle /\ res = NoRes /\ err = NoErr
    /\ session = NoSession
    /\ Quiet

SpecActivity == InitActivity /\ [][SaveTaskActivity]_vars

(***************************************************************************)
(* The activity-log action: a status change of a task under the table of   *)
(* TaskActivityModel.js.                                                   *)
(***************************************************************************)
MaxChanges == 4

TransitionError == [status |-> 400, code |-> "INVALID_STATUS_TRANSITION"]

\* The users who log an activity.
Performers == {"m1", "u1"}

\* The activity-log action for task t by user u with the new status to: a
\* pair of the table moves the task and appends its TaskActivity, every
\* other pair is rejected.
LogStatusChange ==
    /\ Len(activities) < MaxChanges
    /\ \E t \in 1..Len(tasks), u \in Performers, to \in StatusNames :
        LET from == tasks[t].status
            doc == TaskActivity(t, u, "text", from, to)
        IN IF to \in validTransitions[from] /\ ActivityIsValid(doc)
           THEN /\ tasks' = [tasks EXCEPT ![t].status = to]
                /\ activities' = AppendActivity(activities, doc)
                /\ err' = NoErr
           ELSE /\ tasks' = tasks
                /\ activities' = activities
                /\ err' = TransitionError
    /\ UNCHANGED <<users, companies, departments, notifications, pushes, req, res,
                   session, routineTask, registered, registrations, refresh,
                   projectTaskModel>>

SpecLifecycle == InitActivity /\ [][LogStatusChange]_vars

(***************************************************************************)
(* RoutineTaskModel.js                                                     *)
(***************************************************************************)
MaxItems == 40

\* The pairs (completed, total), total up to 42, for which the double
\* (completed / total) * 100 of line 84 lies below the exact value although
\* that value ends in .5: 23 / 40 is the double next below 0.575 and its
\* product with 100 is 57.49999999999999.
HalvesLost == {<<23, 40>>}

\* Line 84: Math.round((completed / total) * 100) in double arithmetic, for
\* 0 <= completed <= total and 0 < total <= 42. Math.round takes the nearest
\* integer and the upper one at .5.
MathRound(completed, total) ==
    LET exact == (200 * completed + total) \div (2 * total)
    IN IF <<completed, total>> \in HalvesLost THEN exact - 1 ELSE exact

\* Line 83: performedTasks.filter((t) => t.isCompleted).length
CompletedCount(performedTasks) ==
    Cardinality({i \in 1..Len(performedTasks) : performedTasks[i]})

\* Lines 80-87, the pre("save") hook: the document that is written.
PreSave(doc, isModified) ==
    IF isModified
    THEN [doc EXCEPT !.progress =
            IF Len(doc.performedTasks) > 0
            THEN MathRound(CompletedCount(doc.performedTasks), Len(doc.performedTasks))
            ELSE 0]
    ELSE doc

\* The performedTasks lists the document is saved with: the completed items
\* first.
ItemLists ==
    UNION {{[i \in 1..total |-> i <= completed] : completed \in 0..total} : total \in 0..MaxItems}

\* The values progress is set to by a save that leaves the list alone
\* (lines 36-41: a number from 0 to 100).
ProgressInputs == {0, 55, 100}

\* routineTask.save() after performedTasks was assigned a new list, or after
\* progress alone was assigned.
SaveRoutineTask ==
    /\ \/ \E list \in ItemLists :
            /\ list # routineTask.performedTasks
            /\ routineTask' = PreSave([routineTask EXCEPT !.performedTasks = list], TRUE)
       \/ \E p \in ProgressInputs :
            routineTask' = PreSave([routineTask EXCEPT !.progress = p], FALSE)
    /\ UNCHANGED <<users, companies, departments, tasks, notifications, pushes, req, res,
                   err, session, activities, registered, registrations, refresh,
                   projectTaskModel>>

InitRoutine ==
    /\ users = BaseUsers /\ companies = BaseCompanies /\ departments = BaseDepartments
    /\ tasks = << >> /\ notifications = << >> /\ pushes = << >>
    /\ req = Idle /\ res = NoRes /\ err = NoErr
    /\ session = NoSession
    /\ Quiet

SpecRoutine == InitRoutine /\ [][SaveRoutineTask]_vars

(***************************************************************************)
(* authController.js: registerUser                                         *)
(***************************************************************************)
\* Names and e-mail addresses are sequences of characters; each letter with
\* its upper case.
Letters ==
    { <<"a", "A">>, <<"b", "B">>, <<"c", "C">>, <<"d", "D">>, <<"h", "H">>,
      <<"p", "P">>, <<"q", "Q">>, <<"r", "R">>, <<"x", "X">>, <<"y", "Y">> }

\* String.prototype.toLowerCase
ToLowerCase(s) ==
    [i \in 1..Len(s) |->
        IF \E l \in Letters : l[2] = s[i] THEN (CHOOSE l \in Letters : l[2] = s[i])[1]
        ELSE s[i]]

\* String.prototype.trim
Trim(s) ==
    LET inked == {i \in 1..Len(s) : s[i] # " "}
    IN IF inked = {} THEN << >>
       ELSE SubSeq(s, CHOOSE i \in inked : \A j \in inked : i <= j,
                      CHOOSE i \in inked : \A j \in inked : i >= j)

\* str.replace(/\b\w/g, (char) => char.toUpperCase()) of the pre("save")
\* hooks (CompanyModel.js lines 130-134, DepartmentModel.js lines 76-77):
\* the first character of every word in upper case.
Capitalize(s) ==
    [i \in 1..Len(s) |->
        IF /\ s[i] # " "
           /\ (i = 1 \/ s[i - 1] = " ")
           /\ \E l \in Letters : l[1] = s[i]
        THEN (CHOOSE l \in Letters : l[1] = s[i])[2]
        ELSE s[i]]

OtherPhone == << "0", "9", "8", "7", "6", "5", "4", "3", "2", "1" >>

RegisterInputs ==
    { RegisterBody(<<"a", "b">>, <<"x">>, LocalPhone, <<"p">>, NONE),
      RegisterBody(<<"A", "b", " ">>, <<"y">>, OtherPhone, <<"q">>, NONE),
      RegisterBody(<<"c", "d">>, <<"X", " ">>, OtherPhone, <<"q">>, NONE),
      RegisterBody(<<"c", "d">>, <<"y">>, CanonicalPhone, <<"q">>, NONE),
      RegisterBody(<<"c", "d">>, <<"y">>, OtherPhone, <<"P">>, NONE),
      RegisterBody(<<"c", "d">>, <<"y">>, OtherPhone, <<"q">>, NONE),
      RegisterBody(<<"c", "d">>, <<"y">>, ShortPhone, <<"q">>, NONE),
      RegisterBody(<<"c">>, <<"y">>, OtherPhone, <<"q">>, NONE),
      RegisterBody(<<" ">>, <<"y">>, OtherPhone, <<"q">>, NONE),
      RegisterBody(<<"c", "d">>, <<"y">>, OtherPhone, <<"q">>, "SuperAdmin"),
      NoRegisterBody }

\* Lines 668-841, phase 1: the error of the first validation the body
\* fails, NoErr when it passes them all.
RegisterInvalid(body) ==
    IF ~body.companyData THEN CustomError(400, "MISSING_REQUIRED_DATA")
    ELSE IF \E f \in {"name", "email", "phone", "departmentName", "adminEmail"} :
                Trim(body[f]) = << >>
    THEN CustomError(400, "MISSING_REQUIRED_FIELDS")
    ELSE IF ~PhoneIsValid(Trim(body.phone)) THEN CustomError(400, "INVALID_PHONE_FORMAT")
    ELSE IF Len(Trim(body.name)) < 2 THEN CustomError(400, "INVALID_COMPANY_NAME_LENGTH")
    ELSE IF Len(Trim(body.departmentName)) < 2
    THEN CustomError(400, "INVALID_DEPARTMENT_NAME_LENGTH")
    ELSE IF body.role # NONE THEN CustomError(400, "ROLE_NOT_ALLOWED")
    ELSE NoErr

\* Lines 900-908 with the pre("save") hook and the schema setters of
\* CompanyModel.js: the company document as it is written.
CompanyDoc(id, body) ==
    [id |-> id,
     name |-> Capitalize(ToLowerCase(Trim(Trim(body.name)))),
     email |-> ToLowerCase(Trim(ToLowerCase(Trim(body.email)))),
     phone |-> FormatPhone(Trim(Trim(body.phone)))]

\* Lines 925-930 and 946-947 with the pre("save") hook of DepartmentModel.js.
DepartmentDoc(id, body, managers) ==
    [id |-> id, name |-> Capitalize(Trim(Trim(body.departmentName))), company |-> id,
     managers |-> managers]

\* An admin user who is left to verify their e-mail address.
AdminUserDoc_unverified(id, body) ==
    [id |-> id, email |-> ToLowerCase(Trim(ToLowerCase(Trim(body.adminEmail)))),
     role |-> "SuperAdmin", isVerified |-> FALSE, company |-> id, department |-> id]

\* Lines 933-943 with the schema setters of UserModel.js.
AdminUserDoc(id, body) ==
    [id |-> id, email |-> ToLowerCase(Trim(ToLowerCase(Trim(body.adminEmail)))),
     role |-> "SuperAdmin", isVerified |-> TRUE, company |-> id, department |-> id]

Found(docs, field, value) == \E i \in 1..Len(docs) : docs[i][field] = value

\* Lines 843-888, phase 2: the four findOne lookups and the error of the
\* first that finds a document.
RegisterExists(body, store) ==
    IF Found(store.companies, "name", Trim(body.name))
    THEN CustomError(409, "COMPANY_NAME_EXISTS")
    ELSE IF Found(store.companies, "email", Trim(ToLowerCase(body.email)))
    THEN CustomError(409, "COMPANY_EMAIL_EXISTS")
    ELSE IF Found(store.companies, "phone", Trim(body.phone))
    THEN CustomError(409, "COMPANY_PHONE_EXISTS")
    ELSE IF Found(store.users, "email", Trim(ToLowerCase(body.adminEmail)))
    THEN CustomError(409, "USER_EMAIL_EXISTS")
    ELSE NoErr

\* The operations of the try block of registerUser, in their order (lines
\* 896-969).
RegisterSteps ==
    << "saveCompany", "findDepartment", "saveDepartment", "saveUser", "saveManagers",
       "commit", "findById" >>

\* The documents client r has written in a transaction that is still open.
Staged(r) ==
    IF registrations[r].pc = "written"
    THEN Accounts(<< CompanyDoc(r, registrations[r].body) >>,
                  << DepartmentDoc(r, registrations[r].body, << r >>) >>,
                  << AdminUserDoc(r, registrations[r].body) >>)
    ELSE NoAccounts

\* The unique indexes (CompanyModel.js lines 12, 17 and 29, UserModel.js
\* line 25, DepartmentModel.js line 57) as an insert of client r meets them:
\* the operations that are refused, with E11000 for a key that a committed
\* document holds and WriteConflict for one that an open transaction of
\* another client has written.
IndexRefusals(r, body) ==
    LET company == CompanyDoc(r, body)
        user == AdminUserDoc(r, body)
        taken(store, op) ==
            IF op = "saveCompany"
            THEN \E f \in {"name", "email", "phone"} : Found(store.companies, f, company[f])
            ELSE Found(store.users, "email", user.email)
        refusal(op) ==
            IF taken(registered, op) THEN "E11000"
            ELSE IF \E o \in Registrants \ {r} : taken(Staged(o), op) THEN "WriteConflict"
            ELSE NONE
    IN [op \in {"saveCompany", "saveUser"} |-> refusal(op)]

\* POST /api/auth/register up to the end of phase 2 (lines 664-888).
RegisterCheck(r) ==
    /\ registrations[r].pc = "idle"
    /\ \E body \in RegisterInputs :
        LET invalid == RegisterInvalid(body)
            exists == IF invalid = NoErr THEN RegisterExists(body, registered) ELSE invalid
            calls == IF invalid = NoErr THEN << "findOne" >> ELSE << >>
            looked == [NoSession EXCEPT !.calls = calls \o (IF exists = NoErr THEN << >>
                                                             ELSE << "next" >>)]
        IN registrations' = [registrations EXCEPT ![r] =
                IF exists = NoErr THEN Registration("checked", body, NoErr, 0, looked)
                ELSE Registration("done", body, exists, 0, looked)]
    /\ UNCHANGED <<users, companies, departments, tasks, notifications, pushes, req, res,
                   err, session, activities, routineTask, registered, refresh,
                   projectTaskModel>>

\* registerUser from startSession to the last write of the transaction
\* (lines 892-947).
RegisterWrite(r) ==
    /\ registrations[r].pc = "checked"
    /\ \E fault \in {"none", "startSession", "saveCompany", "saveDepartment", "saveUser",
                     "saveManagers"} :
        LET reg == registrations[r]
            refused == IndexRefusals(r, reg.body)
            fails == [op \in {"saveCompany", "findDepartment", "saveDepartment", "saveUser",
                              "saveManagers", "commit", "findById"} |->
                        \/ op = fault
                        \/ op \in DOMAIN refused /\ refused[op] # NONE
                        \* line 917: a department of that name in the new company
                        \/ op = "findDepartment"
                           /\ \E i \in 1..Len(registered.departments) :
                                /\ registered.departments[i].name = Trim(reg.body.departmentName)
                                /\ registered.departments[i].company = r]
            failed == FirstFailure(RegisterSteps, fails)
            error == IF failed = "findDepartment" THEN CustomError(409, "DEPARTMENT_NAME_EXISTS")
                     ELSE IF failed \in DOMAIN refused /\ failed # fault
                     THEN StoreError(refused[failed])
                     ELSE StoreError(failed)
        IN registrations' = [registrations EXCEPT ![r] =
                IF fault = "startSession"
                THEN Registration("done", reg.body, StoreError("startSession"), 0,
                                  [reg.session EXCEPT !.calls = @ \o << "next" >>])
                ELSE IF failed = "none"
                THEN Registration("written", reg.body, NoErr, 0,
                        [Session("active", << >>, << >>) EXCEPT
                            !.calls = reg.session.calls \o << "startSession", "startTransaction" >>])
                ELSE Registration("done", reg.body, error, 0,
                        [Session("aborted", << >>, << >>) EXCEPT
                            !.calls = reg.session.calls \o SessionCalls("thrown")])]
    /\ UNCHANGED <<users, companies, departments, tasks, notifications, pushes, req, res,
                   err, session, activities, routineTask, registered, refresh,
                   projectTaskModel>>

\* registerUser from commitTransaction to its end (lines 950-978).
RegisterCommit(r) ==
    /\ registrations[r].pc = "written"
    /\ \E fault \in {"none", "commit", "findById"} :
        LET reg == registrations[r]
            state == IF fault = "commit" THEN "aborted" ELSE "committed"
            exit == IF fault = "findById" THEN "afterCommit" ELSE ExitOf(fault)
            ended == [Session(state, << >>, << >>) EXCEPT
                        !.calls = << "findOne" >> \o SessionCalls(exit)]
        IN /\ registered' =
                Accounts(Persist(state, registered.companies,
                                 registered.companies \o Staged(r).companies),
                         Persist(state, registered.departments,
                                 registered.departments \o Staged(r).departments),
                         Persist(state, registered.users,
                                 registered.users \o Staged(r).users))
           /\ registrations' = [registrations EXCEPT ![r] =
                IF fault = "none" THEN Registration("done", reg.body, NoErr, 201, ended)
                ELSE IF fault = "commit"
                THEN Registration("done", reg.body, StoreError("commit"), 0, ended)
                \* the catch calls abortTransaction on the committed session
                ELSE Registration("done", reg.body, StoreError("abortTransaction"), 0, ended)]
    /\ UNCHANGED <<users, companies, departments, tasks, notifications, pushes, req, res,
                   err, session, activities, routineTask, refresh,
                   projectTaskModel>>

InitRegister ==
    /\ users = BaseUsers /\ companies = BaseCompanies /\ departments = BaseDepartments
    /\ tasks = << >> /\ notifications = << >> /\ pushes = << >>
    /\ req = Idle /\ res = NoRes /\ err = NoErr
    /\ session = NoSession
    /\ Quiet

NextRegister ==
    \E r \in Registrants : RegisterCheck(r) \/ RegisterWrite(r) \/ RegisterCommit(r)

SpecRegister == InitRegister /\ [][NextRegister]_vars

(***************************************************************************)
(* The three controllers that open a session: createTask, updateTaskById   *)
(* and registerUser. The task routes and the registrations work on         *)
(* different collections; a behaviour serves the one or the other.         *)
(***************************************************************************)
NextSessions ==
    \/ /\ registrations = [r \in Registrants |-> NoRegistration]
       /\ NextTasks
    \/ /\ req = Idle /\ tasks = << >> /\ res = NoRes /\ err = NoErr
       /\ NextRegister

SpecSessions == InitRegister /\ [][NextSessions]_vars

(***************************************************************************)
(* The task routes with either listing of models/ProjectTaskModel.js.      *)
(***************************************************************************)
InitModels ==
    /\ projectTaskModel \in ProjectTaskModels
    /\ users = BaseUsers /\ companies = BaseCompanies /\ departments = BaseDepartments
    /\ tasks = << >> /\ notifications = << >> /\ pushes = << >>
    /\ req = Idle /\ res = NoRes /\ err = NoErr
    /\ session = NoSession
    /\ activities = << >>
    /\ routineTask = NoRoutineTask
    /\ registered = NoAccounts
    /\ registrations = [r \in Registrants |-> NoRegistration]
    /\ refresh = NoRefresh

SpecModels == InitModels /\ [][NextTasks]_vars

(***************************************************************************)
(* part_002: socketAuth and setupSocketIO                                  *)
(***************************************************************************)
\* socketAuth is declared as async (socket, next): neither res nor req is
\* bound in it or in its module, so the statement that reads one of them
\* throws ReferenceError; the catch of lines 112-119 reads res as well and
\* throws again, and the promise of socketAuth rejects without a call of
\* next.
Unbound(r) == [next |-> FALSE, thrown |-> "ReferenceError", req |-> r]

\* part_002 lines 15-120.
socketAuth(r) ==
    LET token == r.cookies.access_token IN
    \* lines 18-24: return res.status(401).json(...)
    IF token.verify = "absent" THEN Unbound(r)
    \* lines 29-49: return res.status(401).json(...) in the catch of jwt.verify
    ELSE IF token.verify # "ok" THEN Unbound(r)
    \* User.findById rejects: line 114, res.status(500)
    ELSE IF r.storeFault THEN Unbound(r)
    \* lines 56-62
    ELSE IF token.userId \notin DOMAIN users THEN Unbound(r)
    \* lines 65-106: the five checks, each with return res.status(...)
    ELSE IF \/ ~users[token.userId].isVerified
            \/ ~users[token.userId].isActive
            \/ ~companies[users[token.userId].company].isActive
            \/ companies[users[token.userId].company].subscription.status # "active"
            \/ ~departments[users[token.userId].department].isActive
    THEN Unbound(r)
    \* line 109: req.user = user, before next() of line 110
    ELSE Unbound(r)

\* io.use(socketAuth) (line 134): the server runs socketAuth on the
\* handshake and runs the connection handler of lines 136-152 once next()
\* is called without an error.
SocketAuth ==
    /\ Running("socketAuth")
    /\ LET d == socketAuth(req)
       IN IF d.next THEN /\ CallNext("socketAuth", d.req)
                         /\ err' = err
          ELSE /\ req' = [d.req EXCEPT !.chain = << >>, !.ran = Append(@, "socketAuth")]
               /\ err' = [status |-> 0, code |-> d.thrown]
               /\ res' = res
    /\ UNCHANGED <<others, users, companies, departments, tasks, notifications, pushes, session>>

\* part_002 lines 134-136: io.use(socketAuth); io.on("connection", ...)
SocketStack == << Handler("socketAuth", {}), Handler("connection", {}) >>

\* A handshake with any access_token cookie, for every combination of the
\* activation flags of m1, its company and its department.
InitSocket ==
    /\ \E v, a, ca, da \in BOOLEAN, st \in SubscriptionStatuses :
          /\ users = [BaseUsers EXCEPT !["m1"].isVerified = v, !["m1"].isActive = a]
          /\ companies = [BaseCompanies EXCEPT !["c1"] = Company(ca, st)]
          /\ departments = [BaseDepartments EXCEPT !["d1"].isActive = da]
    /\ tasks = << >> /\ notifications = << >> /\ pushes = << >>
    /\ \E t \in Tokens, f \in BOOLEAN :
          req = Request(SocketStack, t, Query(NONE, NONE), ScopeBody(NONE, NONE, NONE),
                        Params(NONE, NONE, NONE), NONE, f)
    /\ res = NoRes
    /\ err = NoErr
    /\ session = NoSession
    /\ Quiet

SpecSocket == InitSocket /\ [][SocketAuth]_vars

(***************************************************************************)
(* authController.js: getRefreshToken                                      *)
(***************************************************************************)
\* What getRefreshToken does with a request: the cookies it clears, the
\* status and the error code of its answer ("none" with 200).
Answer(cleared, status, code) == [cleared |-> cleared, status |-> status, code |-> code]

\* The cookie cleared when the company is deactivated: part_001 line 292
\* has res.clearCookie("refreshToken", ...), TaskController.js line 1232 has
\* res.clearCookie("refresh_token", ...).
ClearedForCompany(listing) ==
    IF listing = "part_001" THEN "refreshToken" ELSE "refresh_token"

\* TaskController.js lines 1134-1315 and part_001 lines 186-359.
getRefreshToken(listing, token, storeFault) ==
    IF token.verify = "absent" THEN Answer({}, 401, "MISSING_REFRESH_TOKEN")
    ELSE IF token.verify = "TokenExpiredError"
    THEN Answer({"refresh_token"}, 401, "REFRESH_TOKEN_EXPIRED")
    ELSE IF token.verify = "JsonWebTokenError"
    THEN Answer({"refresh_token"}, 401, "INVALID_REFRESH_TOKEN")
    ELSE IF token.verify # "ok"
    THEN Answer({"refresh_token"}, 401, "REFRESH_TOKEN_VERIFICATION_FAILED")
    ELSE IF storeFault THEN Answer({}, 500, "TOKEN_REFRESH_ERROR")
    ELSE IF token.userId \notin DOMAIN users
    THEN Answer({"refresh_token"}, 401, "USER_NOT_FOUND")
    ELSE LET user == users[token.userId] IN
    IF ~user.isVerified THEN Answer({"refresh_token"}, 401, "USER_NOT_VERIFIED")
    ELSE IF ~user.isActive THEN Answer({"refresh_token"}, 401, "USER_DEACTIVATED")
    ELSE IF ~companies[user.company].isActive
    THEN Answer({ClearedForCompany(listing)}, 401, "COMPANY_DEACTIVATED")
    ELSE IF companies[user.company].subscription.status # "active"
    THEN Answer({"refresh_token"}, 403, "SUBSCRIPTION_INACTIVE")
    ELSE IF ~departments[user.department].isActive
    THEN Answer({"refresh_token"}, 401, "DEPARTMENT_DEACTIVATED")
    ELSE Answer({}, 200, NONE)

\* The handler answers 200 itself; a failure is handed to next as a
\* CustomError in the listing of TaskController.js and written with
\* res.status().json() in that of part_001.
GetRefreshToken ==
    /\ Running("getRefreshToken")
    /\ LET answer == getRefreshToken(refresh.listing, refresh.refresh_token, refresh.storeFault)
       IN /\ refresh' = [refresh EXCEPT !.cleared = answer.cleared]
          /\ IF answer.status = 200
             THEN /\ Json("getRefreshToken", 200,
                          [success |-> TRUE, message |-> "Token refreshed successfully",
                           data |-> refresh.refresh_token.userId])
                  /\ err' = err
             ELSE IF refresh.listing = "part_001"
             THEN /\ Json("getRefreshToken", answer.status,
                          Envelope("refresh failed", answer.code))
                  /\ err' = err
             ELSE /\ err' = CustomError(answer.status, answer.code)
                  /\ req' = [req EXCEPT !.chain = << >>, !.ran = Append(@, "getRefreshToken")]
                  /\ res' = res
    /\ UNCHANGED <<users, companies, departments, tasks, notifications, pushes, session,
                   activities, routineTask, registered, registrations,
                   projectTaskModel>>

\* AuthRoutes.js line 35: router.get("/refresh-token", verifyJWT, getRefreshToken)
RefreshStack == << Handler("verifyJWT", {}), Handler("getRefreshToken", {}) >>

\* A request for a new access token: the access_token cookie of one user
\* and the refresh_token cookie of any, with every combination of the
\* activation flags of m1, its company and its department.
InitRefresh ==
    /\ \E v, a, ca, da \in BOOLEAN, st \in SubscriptionStatuses :
          /\ users = [BaseUsers EXCEPT !["m1"].isVerified = v, !["m1"].isActive = a]
          /\ companies = [BaseCompanies EXCEPT !["c1"] = Company(ca, st)]
          /\ departments = [BaseDepartments EXCEPT !["d1"].isActive = da]
    /\ tasks = << >> /\ notifications = << >> /\ pushes = << >>
    /\ \E t \in {Token("ok", "x1"), Token("ok", "m1"), Token("TokenExpiredError", NONE),
                 Token("absent", NONE)} :
          req = Request(RefreshStack, t, Query(NONE, NONE), ScopeBody(NONE, NONE, NONE),
                        Params(NONE, NONE, NONE), NONE, FALSE)
    /\ res = NoRes
    /\ err = NoErr
    /\ session = NoSession
    /\ activities = << >>
    /\ routineTask = NoRoutineTask
    /\ registered = NoAccounts
    /\ registrations = [r \in Registrants |-> NoRegistration]
    /\ \E listing \in Listings, t \in Tokens, f \in BOOLEAN :
          refresh = Refresh(listing, t, f, {})
    /\ projectTaskModel = "ProjectTaskModel.js"

SpecRefresh == InitRefresh /\ [][VerifyJWT \/ GetRefreshToken]_vars

(***************************************************************************)
(* Properties of the session guard (verifyJWT).                            *)
(***************************************************************************)
Ran(h) == \E i \in 1..Len(req.ran) : req.ran[i] = h
Passed(h) == \E i \in 1..Len(req.passed) : req.passed[i] = h
RejectedBy(h) == res.sent > 0 /\ res.by = h
ErrorIs(code) == "error" \in DOMAIN res.body /\ res.body.error = code

\* The credential verified and the lookup returned a user document.
Resolved ==
    /\ req.cookies.access_token.verify = "ok"
    /\ ~req.storeFault
    /\ req.cookies.access_token.userId \in DOMAIN users

Subject == users[req.cookies.access_token.userId]

\* The five checks in the order the specification gives them, each with the
\* reason it rejects with, and whether the resolved principal satisfies it.
CheckOrder ==
    << "ACCOUNT_NOT_VERIFIED", "USER_DEACTIVATED", "COMPANY_DEACTIVATED",
       "SUBSCRIPTION_INACTIVE", "DEPARTMENT_DEACTIVATED" >>

CheckHolds(i) ==
    CASE i = 1 -> Subject.isVerified
      [] i = 2 -> Subject.isActive
      [] i = 3 -> companies[Subject.company].isActive
      [] i = 4 -> companies[Subject.company].subscription.status = "active"
      [] i = 5 -> departments[Subject.department].isActive

FailedChecks == {i \in 1..Len(CheckOrder) : ~CheckHolds(i)}
FirstFailed == CHOOSE i \in FailedChecks : \A j \in FailedChecks : i <= j

\* C1: for a resolved principal that fails some check, verifyJWT rejects with
\* the reason of the first failing check in the order verified, active,
\* company active, subscription active, department active.
C1_FirstFailedCheckGivesReason ==
    (Ran("verifyJWT") /\ Resolved /\ FailedChecks # {})
        => (RejectedBy("verifyJWT") /\ ErrorIs(CheckOrder[FirstFailed]))

\* C2: every rejection written by verifyJWT carries success = false, a message
\* and an error code, and a principal stopped by the company check gets the
\* company-deactivated code with its message.
C2_RejectionCarriesEnvelope ==
    RejectedBy("verifyJWT")
        => /\ {"success", "message", "error"} \subseteq DOMAIN res.body
           /\ res.body.success = FALSE
           /\ (Resolved /\ FailedChecks # {} /\ FirstFailed = 3)
                 => (res.body.error = "COMPANY_DEACTIVATED"
                     /\ res.body.message = "Company account is deactivated")

\* C3: verifyJWT calls next only for a present, valid credential of an existing,
\* verified, active user of an active company with an active subscription and
\* an active department, then with that user attached to the request; and it
\* either writes exactly one response or calls next, never both or neither.
C3_NextOnlyForActivePrincipal ==
    Ran("verifyJWT")
        => /\ Passed("verifyJWT") <=> ~RejectedBy("verifyJWT")
           /\ res.sent <= 1
           /\ Len(req.passed) <= 1
           /\ Passed("verifyJWT")
                 => /\ Resolved
                    /\ FailedChecks = {}
                    /\ req.user = req.cookies.access_token.userId

C3_Witness ==
    /\ Passed("verifyJWT") /\ res.sent = 0
    /\ req.user = "m1"

(***************************************************************************)
(* Properties of the access-control evaluators.                            *)
(***************************************************************************)
\* The first specified value among query, body and route parameter.
FirstSpecified(values) ==
    IF \A i \in 1..Len(values) : values[i] = NONE THEN NONE
    ELSE values[CHOOSE i \in 1..Len(values) :
                    values[i] # NONE /\ \A j \in 1..(i - 1) : values[j] = NONE]

TargetCompany(r) == FirstSpecified(<<r.query.company, r.body.company, r.params.companyId>>)
TargetDepartment(r) ==
    FirstSpecified(<<r.query.department, r.body.department, r.params.departmentId>>)

\* C5: verifyCompanyAccess admits an authenticated request iff the target
\* company (query, else body, else route parameter) is unspecified or is the
\* principal's company; an unspecified target is defaulted to the principal's
\* company; any other target gets the cross-company denial and nothing
\* downstream runs.
C5_CompanyScope ==
    [][(Running("verifyCompanyAccess") /\ req.user # NONE)
        => LET target == TargetCompany(req)
               own == users[req.user].company
               admitted == req'.passed = Append(req.passed, "verifyCompanyAccess")
           IN /\ admitted <=> (target = NONE \/ target = own)
              /\ (target = NONE) => (admitted /\ req'.body.company = own)
              /\ (target # NONE) => req'.body = req.body
              /\ (target # NONE /\ target # own)
                    => /\ res'.sent = 1 /\ res'.status = 403
                       /\ res'.body.error = "CROSS_COMPANY_ACCESS_DENIED"
                       /\ req'.chain = << >>
                       /\ req'.passed = req.passed]_vars

C5_Witness ==
    /\ Passed("verifyCompanyAccess")
    /\ req.query.company = NONE /\ req.params.companyId = "c2"
    /\ req.body.company = "c1" /\ req.user = "m1"

\* C6 as stated: for a request naming an existing department, a SuperAdmin
\* passes, a Manager passes iff the target is their own department or lists
\* them as manager, a User passes iff it is their own department, and every
\* other case is rejected with DEPARTMENT_ACCESS_DENIED.
NamesExistingDepartment ==
    /\ Ran("verifyDepartmentAccess") /\ req.user # NONE /\ ~req.storeFault
    /\ TargetDepartment(req) \in DOMAIN departments

MayAccessDepartment(userId, d) ==
    CASE users[userId].role = "SuperAdmin" -> TRUE
      [] users[userId].role = "Manager" ->
            users[userId].department = d \/ userId \in departments[d].managers
      [] users[userId].role = "User" -> users[userId].department = d

C6_DepartmentScopeAsStated ==
    NamesExistingDepartment
        => IF MayAccessDepartment(req.user, TargetDepartment(req))
           THEN Passed("verifyDepartmentAccess") /\ res.sent = 0
           ELSE RejectedBy("verifyDepartmentAccess") /\ res.status = 403
                /\ ErrorIs("DEPARTMENT_ACCESS_DENIED")

\* C6 amended: the rule holds for a target department of the principal's own
\* company; a Manager or User naming a department of another company is
\* rejected with CROSS_COMPANY_ACCESS_DENIED.
C6_DepartmentScope ==
    NamesExistingDepartment
        => LET d == TargetDepartment(req) IN
           IF users[req.user].role # "SuperAdmin"
              /\ departments[d].company # users[req.user].company
           THEN RejectedBy("verifyDepartmentAccess") /\ res.status = 403
                /\ ErrorIs("CROSS_COMPANY_ACCESS_DENIED")
           ELSE IF MayAccessDepartment(req.user, d)
           THEN Passed("verifyDepartmentAccess") /\ res.sent = 0
           ELSE RejectedBy("verifyDepartmentAccess") /\ res.status = 403
                /\ ErrorIs("DEPARTMENT_ACCESS_DENIED")

\* Manager m1 of d1 admitted to d2, which lists m1 among its managers.
C6_Witness ==
    /\ Passed("verifyDepartmentAccess") /\ req.user = "m1"
    /\ TargetDepartment(req) = "d2" /\ req.resourceDepartment = "d2"

\* A well-formed department id for which the lookup returns no document.
NamesMissingDepartment ==
    /\ Ran("verifyDepartmentAccess") /\ req.user # NONE /\ ~req.storeFault
    /\ TargetDepartment(req) \notin DOMAIN departments \cup {NONE, BadId}

ManagedTarget(r) == FirstSpecified(<<r.params.userId, r.body.userId>>)

C8_UserManagementScope ==
    (Ran("canManageUsers") /\ req.user # NONE)
        => LET role == users[req.user].role
               target == ManagedTarget(req)
           IN /\ (role = "Manager" /\ target # NONE /\ Passed("canManageUsers"))
                    => /\ target \in DOMAIN users
                       /\ users[target].department = users[req.user].department
                       /\ users[target].role = "User"
              /\ (role = "Manager" /\ target \in DOMAIN users /\ ~req.storeFault
                    /\ users[target].department # users[req.user].department)
                    => ErrorIs("DEPARTMENT_MANAGEMENT_DENIED")
              /\ (role = "Manager" /\ target \in DOMAIN users /\ ~req.storeFault
                    /\ users[target].department = users[req.user].department
                    /\ users[target].role # "User")
                    => ErrorIs("PRIVILEGE_MANAGEMENT_DENIED")
              /\ (role = "User") => (RejectedBy("canManageUsers") /\ ~Passed("canManageUsers"))
              /\ (role = "SuperAdmin") => (Passed("canManageUsers") /\ res.sent = 0)

C8_Witness ==
    /\ Passed("canManageUsers") /\ req.user = "m1"
    /\ ManagedTarget(req) = "u1"

(***************************************************************************)
(* Properties of the task routes and of createTask.                        *)
(***************************************************************************)
TaskControllers == {"createTask", "getAllTasks", "getTaskById", "updateTaskById"}

\* The router has invoked handler h: it is the entry of the stack being
\* executed, or it has returned.
Invoked(h) == Running(h) \/ Ran(h)

\* C4: a task controller is invoked only after verifyJWT, authorizeRoles,
\* verifyCompanyAccess and verifyDepartmentAccess have each called next, in
\* that order, and createTask and updateTaskById are never invoked for a
\* principal of role User.
C4_ControllersBehindMiddleware ==
    \A h \in TaskControllers :
        Invoked(h)
            => /\ SubSeq(req.passed, 1, 4) =
                    << "verifyJWT", "authorizeRoles", "verifyCompanyAccess",
                       "verifyDepartmentAccess" >>
               /\ req.user \in DOMAIN users
               /\ (h \in {"createTask", "updateTaskById"})
                     => users[req.user].role # "User"

C4_Witness ==
    /\ Running("updateTaskById") /\ req.user = "m1"
    /\ Len(req.passed) = 4

\* An id that resolves to an active user of the creator's company and
\* department.
ValidAssignee(id, creator) ==
    /\ id \in DOMAIN users
    /\ users[id].isActive
    /\ users[id].company = users[creator].company
    /\ users[id].department = users[creator].department

\* The body passes every validation that precedes the assignee lookup.
ReachesAssigneeLookup(body) ==
    /\ body.title # NONE /\ body.description # NONE /\ body.location # NONE
    /\ body.dueDate >= Now
    /\ body.assignedTo # AbsentList /\ body.assignedTo # << >>
    /\ BadId \notin Range(body.assignedTo)

NotificationsOf(taskId) ==
    LET ForTask(n) == n.task = taskId IN SelectSeq(notifications, ForTask)

ExpectedReceivers(task) ==
    IF task.taskType = "AssignedTask"
    THEN Range(task.assignedTo) \ {task.createdBy}
    ELSE {u \in DOMAIN users :
            /\ users[u].role \in {"Manager", "SuperAdmin"}
            /\ users[u].isActive
            /\ users[u].company = task.company
            /\ users[u].department = task.department} \ {task.createdBy}

\* C10: when createTask answers 201, the users holding a notification for the
\* new task are exactly the assignees except the creator (AssignedTask) or the
\* active Managers and SuperAdmins of the creator's department except the
\* creator (ProjectTask), one notification each.
C10_CreateRecipients ==
    (Ran("createTask") /\ res.status = 201)
        => LET task == res.body.data
               stored == NotificationsOf(task.id)
           IN /\ task.createdBy = req.user
              /\ task.department = users[req.user].department
              /\ {stored[i].user : i \in 1..Len(stored)} = ExpectedReceivers(task)
              /\ Len(stored) = Cardinality(ExpectedReceivers(task))
              /\ Len(pushes) = Len(stored)
              /\ \A i \in 1..Len(stored) : pushes[i].to = stored[i].user

C10_Witness ==
    /\ Ran("createTask") /\ res.status = 201
    /\ req.user = "m1" /\ req.body.taskType = "ProjectTask"
    /\ Len(notifications) = 1 /\ notifications[1].user = "sa"

(***************************************************************************)
(* Properties of the transaction and of the realtime pushes.               *)
(***************************************************************************)
\* A createTask or updateTaskById request is being served, or has been.
WriteRequestRuns == Running("createTask") \/ Running("updateTaskById")
WriteRequestRan == Ran("createTask") \/ Ran("updateTaskById")

\* The notifications the request inserted are the last of the collection.
LastNotifications(n) ==
    /\ Len(notifications) >= n
    /\ SubSeq(notifications, Len(notifications) - n + 1, Len(notifications))
          = session.notifications

\* C11: a createTask or updateTaskById request leaves the task and
\* notification collections either exactly as they were, or, and only when
\* its transaction committed, with the task it saved and with every
\* notification it generated for it.
C11_AllOrNothing ==
    [][WriteRequestRuns
        => \/ tasks' = tasks /\ notifications' = notifications
           \/ /\ session'.state = "committed"
              /\ Len(session'.tasks) = 1
              /\ tasks' = SaveTask(tasks, session'.tasks[1])
              /\ notifications' = notifications \o session'.notifications
              /\ Len(pushes') = Len(pushes) + Len(session'.notifications)]_vars

\* An update whose transaction was aborted after the task had been saved and
\* its notifications inserted in the session.
C11_Witness ==
    /\ Ran("updateTaskById") /\ session.state = "aborted"
    /\ Len(session.tasks) = 1 /\ session.tasks[1].title = "title2"
    /\ Len(session.notifications) > 0
    /\ tasks[1].title = "title" /\ err.code = "commit"

C13_PushOnlyAfterCommit ==
    pushes # << >> => session.state = "committed"

(***************************************************************************)
(* Properties of getAllTasks and getTaskById.                              *)
(***************************************************************************)
\* C14: every task getAllTasks returns belongs to the principal's company;
\* its department is the principal's own, or the departmentId passed by a
\* SuperAdmin; and for a principal of role User it is an AssignedTask that
\* lists the principal in assignedTo, whatever status and taskType filters
\* were passed.
C14_ListScope ==
    (Ran("getAllTasks") /\ res.sent = 1 /\ res.status = 200)
        => \A i \in 1..Len(res.body.data) :
              LET task == res.body.data[i]
                  principal == users[req.user]
              IN /\ task.company = principal.company
                 /\ \/ task.department = principal.department
                    \/ /\ principal.role = "SuperAdmin"
                       /\ req.query.departmentId # NONE
                       /\ task.department = req.query.departmentId
                 /\ principal.role = "User"
                       => /\ task.taskType = "AssignedTask"
                          /\ req.user \in Range(task.assignedTo)

\* A User who asks for ProjectTasks is given the AssignedTask they are
\* assigned to.
C14_Witness ==
    /\ Ran("getAllTasks") /\ res.status = 200
    /\ req.user = "u1" /\ req.query.taskType = "ProjectTask"
    /\ Len(res.body.data) = 1 /\ res.body.data[1].assignedTo = <<"u1">>

\* The principal is listed as an assignee of the task.
ListedAssignee(userId, task) ==
    task.assignedTo # AbsentList /\ userId \in Range(task.assignedTo)

\* C15: getTaskById by a principal of role User fails with FORBIDDEN and
\* returns nothing for an existing task, AssignedTask or ProjectTask, that
\* does not list them as an assignee, and fails with TASK_NOT_FOUND for a
\* well-formed id that no task has.
C15_UserReadDenied ==
    (Ran("getTaskById") /\ users[req.user].role = "User"
        /\ req.params.taskId # MalformedTask)
        => IF req.params.taskId \in 1..Len(tasks) THEN
               ~ListedAssignee(req.user, tasks[req.params.taskId])
                   => err = CustomError(403, "FORBIDDEN") /\ res.sent = 0
           ELSE err = CustomError(404, "TASK_NOT_FOUND") /\ res.sent = 0

\* C15 for the tasks that have an assignedTo list.
C15_UserReadDeniedAssignedTask ==
    (Ran("getTaskById") /\ users[req.user].role = "User"
        /\ req.params.taskId # MalformedTask)
        => IF req.params.taskId \in 1..Len(tasks) THEN
               (tasks[req.params.taskId].taskType = "AssignedTask"
                /\ ~ListedAssignee(req.user, tasks[req.params.taskId]))
                   => err = CustomError(403, "FORBIDDEN") /\ res.sent = 0
           ELSE err = CustomError(404, "TASK_NOT_FOUND") /\ res.sent = 0

(***************************************************************************)
(* Properties of updateTaskById.                                           *)
(***************************************************************************)
\* The request is a PUT /api/tasks/:taskId that has not reached its end.
UpdateRequest ==
    req.chain # << >> /\ req.chain[Len(req.chain)].name = "updateTaskById"

\* updateTaskById runs on the id of a stored task.
UpdatesStoredTask ==
    Running("updateTaskById") /\ req'.params.taskId \in 1..Len(tasks)

ManagerPlus(userId) == users[userId].role \in {"SuperAdmin", "Manager"}

C17_DeniedUpdateChangesNothing ==
    [][(Running("updateTaskById") /\ err'.code = "PERMISSION_DENIED")
        => /\ tasks' = tasks
           /\ notifications' = notifications
           /\ pushes' = pushes
           /\ res' = res
           /\ session'.state # "committed"]_vars

\* A Manager of department d2 is denied the update of a task of department
\* d1 that another user created.
C17_Witness ==
    /\ Ran("updateTaskById") /\ err = CustomError(403, "PERMISSION_DENIED")
    /\ req.user = "m2" /\ users["m2"].department = "d2"
    /\ req.params.taskId = 1
    /\ tasks[1].department = "d1" /\ tasks[1].createdBy # "m2"
    /\ tasks[1].title = "title"
    /\ notifications = << >> /\ pushes = << >>

\* C18: no step changes the taskType, createdBy, department or status of a
\* stored task, nor its id or company, nor the field of the other variant;
\* a stored task is never removed.
C18_ImmutableFields ==
    [][/\ Len(tasks') >= Len(tasks)
       /\ \A i \in 1..Len(tasks) :
            /\ tasks'[i].id = tasks[i].id
            /\ tasks'[i].taskType = tasks[i].taskType
            /\ tasks'[i].createdBy = tasks[i].createdBy
            /\ tasks'[i].company = tasks[i].company
            /\ tasks'[i].department = tasks[i].department
            /\ tasks'[i].status = tasks[i].status
            /\ tasks[i].taskType = "AssignedTask"
                  => tasks'[i].clientInfo = tasks[i].clientInfo
            /\ tasks[i].taskType = "ProjectTask"
                  => tasks'[i].assignedTo = tasks[i].assignedTo]_vars

\* An update whose payload carried a taskType, a createdBy, a status and a
\* department has been applied.
C18_Witness ==
    /\ Ran("updateTaskById") /\ res.status = 200
    /\ req.body.status = "Completed" /\ req.body.taskType = "RoutineTask"
    /\ req.body.createdBy = "u2" /\ req.body.department = "d2"
    /\ req.params.taskId = 1
    /\ tasks[1].title = "title2"
    /\ tasks[1].status = "To Do" /\ tasks[1].department = "d1"
    /\ tasks[1].createdBy # "u2"

\* C19: an update of an AssignedTask whose body carries assignedTo answers
\* success only if every id of the list resolves to an active user of the
\* actor's company and department, as createTask requires; otherwise it
\* fails with the INVALID_ASSIGNED_USERS error of createTask (unless no
\* session could be started) and changes nothing.
C19_ValidatesAsCreate ==
    [][(/\ UpdatesStoredTask
        /\ tasks[req'.params.taskId].taskType = "AssignedTask"
        /\ req'.body.assignedTo # AbsentList
        /\ BadId \notin Range(req'.body.assignedTo)
        /\ MayUpdate(tasks[req'.params.taskId], req.user))
        => IF \A id \in Range(req'.body.assignedTo) : ValidAssignee(id, req.user)
           THEN err'.code # "INVALID_ASSIGNED_USERS"
           ELSE /\ err' \in {CustomError(404, "INVALID_ASSIGNED_USERS"),
                             StoreError("startSession")}
                /\ res' = res
                /\ tasks' = tasks /\ notifications' = notifications
                /\ pushes' = pushes]_vars

\* updateTaskById has answered success.
UpdateSucceeds == Running("updateTaskById") /\ res'.sent > res.sent

\* The users the successful update has notified with the message.
Notified(message) ==
    {session'.notifications[i].user :
        i \in {j \in 1..Len(session'.notifications) :
                  session'.notifications[j].message = message}}

\* The update changed the title, dueDate or priority of the task or its set
\* of assignees.
ImportantChange(old, new) ==
    \/ new.title # old.title
    \/ new.dueDate # old.dueDate
    \/ new.priority # old.priority
    \/ old.taskType = "AssignedTask" /\ Range(new.assignedTo) # Range(old.assignedTo)

AddedAssignees(old, new) ==
    IF old.taskType = "AssignedTask"
    THEN Range(new.assignedTo) \ Range(old.assignedTo)
    ELSE {}

\* The Managers and SuperAdmins of a department of a company.
ManagersOf(company, department) ==
    {u \in DOMAIN users : /\ ManagerPlus(u)
                          /\ users[u].company = company
                          /\ users[u].department = department}

\* C20 as the code has it: on a successful update the added assignees, and
\* they alone, get the assignment notification; iff title, dueDate or
\* priority changed or the assignee set changed, the creator (when not the
\* actor) is notified, together with the original assignees other than the
\* actor (AssignedTask) or the Managers and SuperAdmins of the actor's
\* department other than the actor (ProjectTask); nobody else is notified,
\* so a change of description, location or clientInfo alone notifies nobody.
C20_UpdateNotifications ==
    [][UpdateSucceeds
        => LET old == tasks[req'.params.taskId]
               new == tasks'[req'.params.taskId]
               actor == req.user
               important == ImportantChange(old, new)
           IN /\ notifications' = notifications \o session'.notifications
              /\ Notified("Assigned to task") = AddedAssignees(old, new)
              /\ Notified("Task updated") =
                    IF important /\ old.createdBy # actor THEN {old.createdBy} ELSE {}
              /\ Notified("Task modified") =
                    IF important /\ old.taskType = "AssignedTask"
                    THEN Range(old.assignedTo) \ {actor} ELSE {}
              /\ Notified("Project task updated") =
                    IF important /\ old.taskType = "ProjectTask"
                    THEN ManagersOf(users[actor].company, users[actor].department)
                            \ {actor}
                    ELSE {}
              /\ \A i \in 1..Len(session'.notifications) :
                    session'.notifications[i].message
                        \in {"Assigned to task", "Task updated", "Task modified",
                             "Project task updated"}
              /\ (~important /\ AddedAssignees(old, new) = {})
                    => session'.notifications = << >>]_vars

\* A Manager has added themselves to the task a SuperAdmin created and
\* assigned to u1: the Manager got the assignment notification, the creator
\* and the original assignee the notifications of the change.
C20_Witness ==
    /\ Ran("updateTaskById") /\ res.status = 200 /\ req.user = "m1"
    /\ tasks[1].createdBy = "sa" /\ Range(tasks[1].assignedTo) = {"u1", "m1"}
    /\ Len(session.notifications) = 3
    /\ session.notifications[1].user = "m1"
    /\ session.notifications[1].message = "Assigned to task"
    /\ session.notifications[2].user = "sa"
    /\ session.notifications[3].user = "u1"

\* C20 as stated: on an important change the whole original assignee set
\* (AssignedTask) or every Manager and SuperAdmin of the department of the
\* task (ProjectTask) is notified.
C20_NotifiesWholeSet ==
    [][UpdateSucceeds
        => LET old == tasks[req'.params.taskId]
               new == tasks'[req'.params.taskId]
               important == ImportantChange(old, new)
           IN /\ Notified("Assigned to task") = AddedAssignees(old, new)
              /\ Notified("Task updated") =
                    IF important /\ old.createdBy # req.user THEN {old.createdBy} ELSE {}
              /\ Notified("Task modified") =
                    IF important /\ old.taskType = "AssignedTask"
                    THEN Range(old.assignedTo) ELSE {}
              /\ Notified("Project task updated") =
                    IF important /\ old.taskType = "ProjectTask"
                    THEN ManagersOf(old.company, old.department)
                    ELSE {}]_vars

\* The body carries every updatable field of the task with the value the
\* stored task has, and the same set of assignees.
SameAsStored(body, task) ==
    /\ \A k \in {"title", "description", "location", "dueDate", "priority"} :
          body[k] = task[k]
    /\ IF task.taskType = "AssignedTask"
       THEN /\ body.assignedTo # AbsentList
            /\ Range(body.assignedTo) = Range(task.assignedTo)
            /\ Len(body.assignedTo) = Len(task.assignedTo)
       ELSE body.clientInfo = task.clientInfo

\* C21: an update by a permitted actor whose body equals the current state
\* of the task is answered with success and creates no notification and no
\* push, for an AssignedTask and for a ProjectTask.
C21_IdenticalUpdateIsNoOp ==
    [][(/\ UpdatesStoredTask
        /\ MayUpdate(tasks[req'.params.taskId], req.user)
        /\ SameAsStored(req'.body, tasks[req'.params.taskId]))
        => /\ res'.sent = res.sent + 1 /\ res'.status = 200
           /\ err' = NoErr
           /\ session'.notifications = << >>
           /\ notifications' = notifications
           /\ pushes' = pushes]_vars

\* C21 for the actors who belong to the department of the task.
C21_IdenticalUpdateInOwnDepartment ==
    [][(/\ UpdatesStoredTask
        /\ MayUpdate(tasks[req'.params.taskId], req.user)
        /\ users[req.user].department = tasks[req'.params.taskId].department
        /\ SameAsStored(req'.body, tasks[req'.params.taskId]))
        => /\ res'.sent = res.sent + 1 /\ res'.status = 200
           /\ err' = NoErr
           /\ tasks' = tasks
           /\ session'.notifications = << >>
           /\ notifications' = notifications
           /\ pushes' = pushes]_vars

(***************************************************************************)
(* Properties of the TaskActivity model.                                   *)
(***************************************************************************)
\* The pairs (from, to) of the transition table.
AllowedTransition(from, to) ==
    \/ from = "To Do" /\ to \in {"In Progress", "Pending"}
    \/ from = "In Progress" /\ to \in {"In Progress", "Completed", "Pending"}
    \/ from = "Completed" /\ to \in {"Pending", "In Progress"}
    \/ from = "Pending" /\ to \in {"In Progress", "Completed"}

\* C22: every status change with a from and a to recorded in a TaskActivity
\* is a pair of the transition table, and a step that records none leaves the status of
\* every task as it was.
C22_OnlyAllowedTransitions ==
    /\ \A i \in 1..Len(activities) :
          activities[i].statusChange.from # NONE
             => AllowedTransition(activities[i].statusChange.from,
                                  activities[i].statusChange.to)
    /\ \A i \in 1..Len(tasks) : tasks[i].status = "To Do"

C24_ProgressIsRoundedShare ==
    [][routineTask'.performedTasks # routineTask.performedTasks
        => LET total == Len(routineTask'.performedTasks)
               completed == Cardinality({i \in 1..total : routineTask'.performedTasks[i]})
           IN /\ routineTask'.progress \in 0..100
              /\ routineTask'.progress =
                    IF total = 0 THEN 0
                    ELSE (200 * completed + total) \div (2 * total)]_vars

\* C24 up to the last unit: the progress stored is within one of the
\* rounded share, and from 0 to 100.
C24_ProgressWithinOne ==
    [][routineTask'.performedTasks # routineTask.performedTasks
        => LET total == Len(routineTask'.performedTasks)
               completed == Cardinality({i \in 1..total : routineTask'.performedTasks[i]})
               rounded == IF total = 0 THEN 0
                          ELSE (200 * completed + total) \div (2 * total)
           IN /\ routineTask'.progress \in 0..100
              /\ routineTask'.progress \in {rounded - 1, rounded}
              /\ total <= 39 => routineTask'.progress = rounded]_vars

(***************************************************************************)
(* Properties of registerUser and of the sessions.                         *)
(***************************************************************************)
\* The documents of the store that belong to the registration of client r.
Owned(docs, r) == {i \in 1..Len(docs) : docs[i].id = r}

PersistsNothing(r) ==
    /\ Owned(registered.companies, r) = {}
    /\ Owned(registered.departments, r) = {}
    /\ Owned(registered.users, r) = {}

\* C25: a registration that fails at the department lookup, at a save of
\* the company, the department, the admin user or the manager link, or at
\* the commit leaves nothing in the store; one that succeeds leaves exactly
\* one company, one department and one user, a verified SuperAdmin who is
\* the only manager of the department.
C25_RegistrationAllOrNothing ==
    \A r \in Registrants :
        LET reg == registrations[r]
        IN /\ reg.pc # "done" => PersistsNothing(r)
           /\ reg.pc = "done" /\ reg.err # NoErr /\ reg.err.code # "abortTransaction"
                => PersistsNothing(r)
           /\ reg.pc = "done" /\ reg.status = 201
                => /\ Cardinality(Owned(registered.companies, r)) = 1
                   /\ Cardinality(Owned(registered.departments, r)) = 1
                   /\ Cardinality(Owned(registered.users, r)) = 1
                   /\ \A i \in Owned(registered.users, r) :
                        /\ registered.users[i].role = "SuperAdmin"
                        /\ registered.users[i].isVerified
                        /\ registered.users[i].company = r
                        /\ \A j \in Owned(registered.departments, r) :
                             /\ registered.departments[j].managers = << registered.users[i].id >>
                             /\ registered.departments[j].company = r
                             /\ registered.users[i].department = registered.departments[j].id

\* One registration has succeeded and another has failed at the save of the
\* manager link, after its company, department and user were written.
C25_Witness ==
    \E r, o \in Registrants :
        /\ registrations[r].pc = "done" /\ registrations[r].status = 201
        /\ registrations[o].pc = "done" /\ registrations[o].err = StoreError("saveManagers")
        /\ Len(registered.companies) = 1

\* The handlers that have returned, by the calls they made.
Finished ==
    {session.calls} \cup
    {registrations[r].session.calls : r \in {o \in Registrants : registrations[o].pc = "done"}}

Position(calls, call) == CHOOSE i \in 1..Len(calls) : calls[i] = call

Calls(calls, call) == \E i \in 1..Len(calls) : calls[i] = call

\* C26: a handler that has started a session ends it, once, whichever way
\* it is left.
C26_SessionAlwaysEnded ==
    \A calls \in Finished :
        Calls(calls, "startSession")
            => /\ Cardinality({i \in 1..Len(calls) : calls[i] = "endSession"}) = 1
               /\ Position(calls, "startSession") < Position(calls, "endSession")

\* Sessions were ended on the path that returns from inside the try block
\* and after a registration whose transaction was aborted.
C26_Witness ==
    /\ err.code = "TASK_NOT_FOUND"
    /\ Calls(session.calls, "endSession")
    /\ ~Calls(session.calls, "abortTransaction")

\* C27: a handler that fails after startTransaction calls abortTransaction
\* before the error is passed to next.
C27_AbortBeforeError ==
    \A calls \in Finished :
        Calls(calls, "startTransaction") /\ Calls(calls, "next")
            => /\ Calls(calls, "abortTransaction")
               /\ Position(calls, "abortTransaction") < Position(calls, "next")

\* C27 for the failures that are thrown: every handler except the one left
\* by return next(...) aborts before the error is passed on.
C27_ThrownFailuresAbort ==
    \A calls \in Finished :
        (/\ Calls(calls, "startTransaction") /\ Calls(calls, "next")
         /\ ~(calls = session.calls /\ err.code = "TASK_NOT_FOUND"))
            => /\ Calls(calls, "abortTransaction")
               /\ Position(calls, "abortTransaction") < Position(calls, "next")

\* C28: the uniqueness lookups of a registration are made inside its
\* transaction, and the companies and users committed have pairwise
\* different names, e-mail addresses and phones.
C28_ChecksInsideTransaction ==
    /\ \A r \in Registrants :
        LET calls == registrations[r].session.calls
        IN Calls(calls, "findOne") /\ Calls(calls, "startTransaction")
            => Position(calls, "startTransaction") < Position(calls, "findOne")
    /\ \A i, j \in 1..Len(registered.companies) :
        i # j => \A f \in {"name", "email", "phone"} :
                    registered.companies[i][f] # registered.companies[j][f]
    /\ \A i, j \in 1..Len(registered.users) :
        i # j => registered.users[i].email # registered.users[j].email

\* C28, its consequence alone: no two committed companies share a name, an
\* e-mail address or a phone and no two users an e-mail address.
C28_AtMostOneCommits ==
    /\ \A i, j \in 1..Len(registered.companies) :
        i # j => \A f \in {"name", "email", "phone"} :
                    registered.companies[i][f] # registered.companies[j][f]
    /\ \A i, j \in 1..Len(registered.users) :
        i # j => registered.users[i].email # registered.users[j].email

\* The *_EXISTS codes of the fields of body that equal, as they would be
\* written, those of a company or a user of the store.
MatchingCodes(body, store) ==
    LET doc == CompanyDoc("new", body)
    IN {c \in {"COMPANY_NAME_EXISTS", "COMPANY_EMAIL_EXISTS", "COMPANY_PHONE_EXISTS",
                "USER_EMAIL_EXISTS"} :
            \/ c = "COMPANY_NAME_EXISTS" /\ Found(store.companies, "name", doc.name)
            \/ c = "COMPANY_EMAIL_EXISTS" /\ Found(store.companies, "email", doc.email)
            \/ c = "COMPANY_PHONE_EXISTS" /\ Found(store.companies, "phone", doc.phone)
            \/ c = "USER_EMAIL_EXISTS"
               /\ Found(store.users, "email", AdminUserDoc("new", body).email)}

\* The company fields of body that equal, as written, those of a company of
\* the store.
CompanyMatches(body, store) ==
    MatchingCodes(body, store) \ {"USER_EMAIL_EXISTS"}

\* C29: a valid registration whose company name, e-mail address or phone
\* equals, after the normalisation of the write, that of an existing company
\* is rejected by the lookups with 409 and the code of a matching field, and
\* writes nothing.
C29_NormalisedDuplicateRejected ==
    [][\A r \in Registrants :
        /\ registrations[r].pc = "idle" /\ registrations'[r].pc # "idle"
        /\ RegisterInvalid(registrations'[r].body) = NoErr
        /\ CompanyMatches(registrations'[r].body, registered) # {}
        => /\ registrations'[r].pc = "done"
           /\ registrations'[r].err.status = 409
           /\ registrations'[r].err.code \in MatchingCodes(registrations'[r].body, registered)
           /\ registered' = registered]_vars

\* C29 for the e-mail address, the one field the lookup normalises as the
\* write does, and its second half: a registration that meets an existing
\* name, address or phone never writes a company.
C29_DuplicateNeverPersists ==
    /\ \A i, j \in 1..Len(registered.companies) :
        i # j => \A f \in {"name", "email", "phone"} :
                    registered.companies[i][f] # registered.companies[j][f]
    /\ \A r \in Registrants :
        registrations[r].err.code \in {"E11000", "WriteConflict"} => PersistsNothing(r)

(***************************************************************************)
(* Properties of getRefreshToken.                                          *)
(***************************************************************************)
\* The error code getRefreshToken has answered with, "none" when it has not
\* answered with an error.
RefreshCode ==
    IF ~Ran("getRefreshToken") THEN NONE
    ELSE IF err # NoErr THEN err.code
    ELSE IF RejectedBy("getRefreshToken") /\ "error" \in DOMAIN res.body THEN res.body.error
    ELSE NONE

\* The codes of the failed verifications, those of the user in the order
\* of the checks of verifyJWT.
TokenFailures ==
    {"REFRESH_TOKEN_EXPIRED", "INVALID_REFRESH_TOKEN", "REFRESH_TOKEN_VERIFICATION_FAILED",
     "USER_NOT_FOUND"}

RefreshOrder ==
    << "USER_NOT_VERIFIED", "USER_DEACTIVATED", "COMPANY_DEACTIVATED",
       "SUBSCRIPTION_INACTIVE", "DEPARTMENT_DEACTIVATED" >>

\* Whether the user of the refresh token satisfies check i of verifyJWT.
RefreshHolds(i) ==
    LET user == users[refresh.refresh_token.userId]
    IN CASE i = 1 -> user.isVerified
         [] i = 2 -> user.isActive
         [] i = 3 -> companies[user.company].isActive
         [] i = 4 -> companies[user.company].subscription.status = "active"
         [] i = 5 -> departments[user.department].isActive

RefreshResolved ==
    /\ refresh.refresh_token.verify = "ok"
    /\ ~refresh.storeFault
    /\ refresh.refresh_token.userId \in DOMAIN users

RefreshOrderKept ==
    (Ran("getRefreshToken") /\ RefreshResolved)
        => LET failed == {i \in 1..Len(RefreshOrder) : ~RefreshHolds(i)}
           IN IF failed = {} THEN RefreshCode = NONE
              ELSE RefreshCode = RefreshOrder[CHOOSE i \in failed : \A j \in failed : i <= j]

\* C30: when getRefreshToken answers with one of the failed verifications
\* (expired, invalid, user not found, unverified, deactivated, company
\* deactivated, subscription not active, department deactivated) it has
\* cleared the refresh_token cookie, and the user's checks are made in the
\* order of verifyJWT.
C30_FailedRefreshClearsCookie ==
    /\ RefreshCode \in TokenFailures \cup {RefreshOrder[i] : i \in 1..Len(RefreshOrder)}
        => "refresh_token" \in refresh.cleared
    /\ RefreshOrderKept

\* C30 in the listing of TaskController.js, and the order of the checks in
\* both listings.
C30_LaterListingClearsCookie ==
    /\ (/\ refresh.listing = "TaskController.js"
        /\ RefreshCode \in TokenFailures \cup {RefreshOrder[i] : i \in 1..Len(RefreshOrder)})
        => refresh.cleared = {"refresh_token"}
    /\ RefreshOrderKept

\* The refresh_token cookie verifies and names a verified, active user of
\* an active company with an active subscription and department.
RefreshCredentialValid ==
    /\ RefreshResolved
    /\ \A i \in 1..Len(RefreshOrder) : RefreshHolds(i)

\* The request has been answered.
Answered == req.chain = << >> /\ req.ran # << >>

\* C31: a request to GET /auth/refresh-token with a valid refresh credential
\* of an active principal and an expired or absent access credential is
\* answered 200 by getRefreshToken, which sets a new access_token cookie.
C31_RefreshWithoutAccessToken ==
    (/\ Answered
     /\ RefreshCredentialValid
     /\ req.cookies.access_token.verify \in {"absent", "TokenExpiredError"})
        => /\ Ran("getRefreshToken")
           /\ res.by = "getRefreshToken" /\ res.status = 200

\* C31 for a client whose access credential is still valid: the valid
\* refresh credential then yields a new access credential.
C31_RefreshWithAccessToken ==
    (/\ Answered
     /\ RefreshCredentialValid
     /\ Passed("verifyJWT"))
        => res.by = "getRefreshToken" /\ res.status = 200

(***************************************************************************)
(* Properties of the ProjectTask phone.                                    *)
(***************************************************************************)
\* +2519 followed by eight digits.
IsCanonicalPhone(v) ==
    /\ Len(v) = 13
    /\ SubSeq(v, 1, 5) = <<"+", "2", "5", "1", "9">>
    /\ \A i \in 6..13 : v[i] \in Digits

\* The canonical form of a phone given as 09XXXXXXXX or +2519XXXXXXXX.
CanonicalForm(v) ==
    IF Len(v) = 10 /\ SubSeq(v, 1, 2) = <<"0", "9">>
    THEN <<"+", "2", "5", "1", "9">> \o SubSeq(v, 3, 10)
    ELSE v

\* The ProjectTask documents a step has written.
WrittenProjectTasks ==
    {i \in 1..Len(tasks') :
        /\ tasks'[i].taskType = "ProjectTask"
        /\ (i > Len(tasks) \/ tasks'[i] # tasks[i])}

PhoneKeptCanonical ==
    \A i \in WrittenProjectTasks :
        /\ IsCanonicalPhone(tasks'[i].clientInfo.phone)
        /\ req'.body.clientInfo.present
            => tasks'[i].clientInfo.phone = CanonicalForm(req'.body.clientInfo.phone)

\* C32: every save of a ProjectTask, by createTask or updateTaskById, stores
\* clientInfo.phone as +2519XXXXXXXX: 09XXXXXXXX is rewritten and the
\* canonical form is kept.
C32_PhoneStoredCanonical == [][PhoneKeptCanonical]_vars

\* C32 with the listing of models/ProjectTaskModel.js that has the
\* pre("save") hook.
C32_HookStoresCanonical ==
    [][projectTaskModel = "ProjectTaskModel.js" => PhoneKeptCanonical]_vars

(***************************************************************************)
(* Properties of socketAuth.                                               *)
(***************************************************************************)
\* C33: a handshake with a valid access credential of a verified, active
\* principal with an active company, subscription and department passes
\* socketAuth and is bound to that user; any other handshake does not pass,
\* so the connection handler does not run for it.
C33_SocketHandshake ==
    Ran("socketAuth")
        => IF Resolved /\ FailedChecks = {}
           THEN Passed("socketAuth") /\ req.user = req.cookies.access_token.userId
           ELSE ~Passed("socketAuth") /\ ~Ran("connection")

\* C33, its second half: a handshake without such a credential is refused.
C33_BadHandshakeRefused ==
    (Ran("socketAuth") /\ ~(Resolved /\ FailedChecks = {}))
        => ~Passed("socketAuth") /\ ~Ran("connection") /\ req.user = NONE

(***************************************************************************)
(* Properties of the assignees and of the notification batches.            *)
(***************************************************************************)
\* The request is an update of a stored AssignedTask that carries the empty
\* list as assignedTo and was let through to the lookup of the task.
EmptiesAssignees ==
    /\ Ran("updateTaskById")
    /\ req.body.assignedTo = << >>
    /\ users[req.user].role # "User"
    /\ FindTask(req.params.taskId).found
    /\ FindTask(req.params.taskId).doc.taskType = "AssignedTask"

TaskReturned == res.by = "getTaskById" /\ res.status = 200

\* C35: a task returned by getTaskById belongs to the principal's company,
\* and to the principal's department unless the principal is a SuperAdmin.
C35_ReadWithinScope ==
    TaskReturned
        => /\ res.body.data.company = users[req.user].company
           /\ \/ users[req.user].role = "SuperAdmin"
              \/ res.body.data.department = users[req.user].department

\* C35, its first half alone: no task of another company is returned.
C35_ReadWithinCompany ==
    TaskReturned => res.body.data.company = users[req.user].company

\* C35 for role User: a User is returned only tasks assigned to them.
C35_UserReadsOwnAssignments ==
    (TaskReturned /\ users[req.user].role = "User")
        => req.user \in Range(res.body.data.assignedTo)

(***************************************************************************)
(* Properties of the company boundary of verifyDepartmentAccess.           *)
(***************************************************************************)
\* The request names a department of a company other than its principal's.
NamesForeignDepartment ==
    /\ req.user # NONE
    /\ TargetDepartment(req) \in DOMAIN departments
    /\ departments[TargetDepartment(req)].company # users[req.user].company

\* C36: verifyDepartmentAccess admits no request that names a department of
\* a company other than the principal's, whatever the principal's role.
C36_NoForeignDepartmentAdmitted ==
    NamesForeignDepartment => ~Passed("verifyDepartmentAccess")

\* C36 for a Manager or a User: such a request is never admitted.
C36_NoForeignDepartmentBelowSuperAdmin ==
    (NamesForeignDepartment /\ users[req.user].role # "SuperAdmin")
        => ~Passed("verifyDepartmentAccess")

(***************************************************************************)
(* Properties of the notification batch of one request.                    *)
(***************************************************************************)
\* updateTaskById has answered 200: its batch is session.notifications.
UpdateAnswered == Ran("updateTaskById") /\ res.status = 200

\* createTask has answered 201: its batch is session.notifications.
CreateAnswered == Ran("createTask") /\ res.status = 201

\* The recipients of the batch, one entry per record.
BatchRecipients == [i \in 1..Len(session.notifications) |-> session.notifications[i].user]

\* C37: the batch of one updateTaskById holds at most one record per
\* recipient.
C37_OneRecordPerRecipient ==
    UpdateAnswered
        => \A i, j \in 1..Len(BatchRecipients) :
              BatchRecipients[i] = BatchRecipients[j] => i = j

\* C37 within one kind of notification: no recipient appears twice among
\* the records that carry the same message.
C37_OneRecordPerRecipientAndMessage ==
    UpdateAnswered
        => \A i, j \in 1..Len(BatchRecipients) :
              (/\ BatchRecipients[i] = BatchRecipients[j]
               /\ session.notifications[i].message = session.notifications[j].message)
                  => i = j

\* C38: no notification of createTask or updateTaskById is addressed to the
\* user who made the request.
C38_ActorNeverNotified ==
    (UpdateAnswered \/ CreateAnswered) => req.user \notin Range(BatchRecipients)

\* C38 for createTask alone.
C38_CreatorNeverNotified ==
    CreateAnswered => req.user \notin Range(BatchRecipients)

\* C38 for the notifications of an important change alone: the actor gets
\* none of "Task updated", "Task modified" and "Project task updated".
C38_ActorNotToldOfChange ==
    UpdateAnswered
        => \A i \in 1..Len(session.notifications) :
              session.notifications[i].user = req.user
                  => session.notifications[i].message = "Assigned to task"

(***************************************************************************)
(* Properties of the outcome a session handler reports.                    *)
(***************************************************************************)
\* The handler reported success / failure for the task request in hand.
TaskReportsSuccess == res.sent = 1 /\ res.status \in {200, 201}
TaskReportsFailure == err # NoErr

\* abortTransaction was called on a session whose transaction had committed.
AbortsCommitted(s) == s.state = "committed" /\ Calls(s.calls, "abortTransaction")

\* The outcome of createTask and updateTaskById matches the store.
TaskOutcomeMatches ==
    WriteRequestRan
        => /\ session.state = "committed" => TaskReportsSuccess
           /\ TaskReportsFailure => session.state # "committed"
           /\ ~AbortsCommitted(session)

\* The outcome of the registration of client r matches the store.
RegisterOutcomeMatches(r) ==
    LET reg == registrations[r]
    IN reg.pc = "done"
        => /\ reg.session.state = "committed" => reg.status = 201
           /\ reg.err # NoErr => PersistsNothing(r)
           /\ ~AbortsCommitted(reg.session)

\* C39: for createTask, updateTaskById and registerUser a committed
\* transaction is reported as success, a reported failure leaves none of the
\* writes of the request in the store, and abortTransaction is never called
\* on a transaction that has committed.
C39_OutcomeMatchesStore ==
    /\ TaskOutcomeMatches
    /\ \A r \in Registrants : RegisterOutcomeMatches(r)

\* C39 for createTask and updateTaskById alone.
C39_TaskOutcomeMatchesStore == TaskOutcomeMatches

(***************************************************************************)
(* Properties of the transition table as a graph.                          *)
(***************************************************************************)
\* The statuses reached from the statuses of set in at most n steps of the
\* table, each path at least one step long.
RECURSIVE ReachedWithin(_, _)
ReachedWithin(set, n) ==
    LET step == UNION {validTransitions[s] : s \in set}
    IN IF n = 1 THEN step ELSE step \cup ReachedWithin(step, n - 1)

\* The statuses reachable from status s by one step or more.
ReachableFrom(s) == ReachedWithin({s}, Cardinality(StatusNames))

\* Every working status can still be reached from the status of task t.
StaysLive(store, t) ==
    /\ validTransitions[store[t].status] # {}
    /\ {"In Progress", "Completed", "Pending"} \subseteq ReachableFrom(store[t].status)

\* C40: under the transition table a task that has left To Do never
\* returns to To Do, and from the status a task is in each of In Progress,
\* Completed and Pending can be reached: no status is terminal.
C40_NoReturnAndNoTerminalStatus ==
    [][\A t \in 1..Len(tasks) :
          /\ tasks[t].status # "To Do" => tasks'[t].status # "To Do"
          /\ "To Do" \notin ReachableFrom(tasks[t].status)
          /\ StaysLive(tasks, t) /\ StaysLive(tasks', t)]_vars

\* A task has gone To Do, In Progress, Completed, Pending and is Completed
\* again.
C40_Witness ==
    /\ Len(activities) = 4 /\ tasks[1].status = "Completed"
    /\ activities[1].statusChange = [from |-> "To Do", to |-> "In Progress"]
    /\ activities[2].statusChange = [from |-> "In Progress", to |-> "Completed"]
    /\ activities[3].statusChange = [from |-> "Completed", to |-> "Pending"]
    /\ activities[4].statusChange = [from |-> "Pending", to |-> "Completed"]

====
